---- MODULE Spec2Model ----
(***************************************************************************)
(* brain-server: the capture / clarify / pending-expiry state machine over *)
(* the durable store and the vault capture log, and the journal narrator  *)
(* (scanner, batch loop, daily files, audit log, state checkpoint).       *)
(***************************************************************************)
EXTENDS Integers, Sequences, FiniteSets, TLC

(***************************************************************************)
(* Bounds of the model.                                                    *)
(***************************************************************************)
\* distinct values generateID can return (collisions are possible)
MaxCaptures == 2
\* POST /capture requests served
MaxCaptureCalls == 2
\* POST /capture requests served when every reply and write outcome is drawn
MaxFullCaptures == 1
\* capture ids that get queued for review while requests and jobs race
MaxReviewIDs == 2
\* clock advances (each of half a TTL)
MaxTicks == 2
\* concurrent POST /clarify requests
MaxClarifiers == 2
\* overlapping runs of the expire-pending job
MaxExpirers == 2
\* raw journal files written to Journal/Raw
MaxRawFiles == 3
\* Update() calls
MaxUpdates == 2
\* latest `created` instant a client may send
MaxInstant == 2
\* instants per calendar day
DayLen == 3
\* largest UTC offset of a client timestamp, in instants
MaxOffset == 2
\* Config.BatchSize the narrator is constructed with
BatchSize == 2
MaxDailyCalls == 3
MaxBoosters == 2
MaxBoosts == 3
MaxDecays == 2
MaxSignalTicks == 2
MaxDeadline == 4
MaxAttemptSeconds == 1
MaxGenerateCalls == 2
MaxAtomicCalls == 2
MaxBlocks == 2
MaxLetterDays == 1
MaxUpdaters == 2
MaxRunsEach == 1
MaxSharedRaw == 2
MaxNotes == 3
MaxTermCount == 4
MaxPendingCount == 4
MaxEvidence == 3
MaxCandidates == 3
TicksPerHalfHour == 60
MaxStamps == 4
MaxAppendCalls == 2
MaxRequests == 2
MaxBoostCalls == 2
Scale == 10000

(***************************************************************************)
(* Program constants.                                                      *)
(***************************************************************************)
\* AddPending: expires := now.Add(24 * time.Hour)
TTLHours == 24
\* classifier.NewClassifier(llmClient, 0.6), in tenths
ConfidenceThreshold == 6
\* suggestChoices: "Limit to 4 choices"
MaxChoices == 4
\* AppendLine: for attempt := 0; attempt < 3; attempt++
AppendAttempts == 3
\* DefaultConfig: MaxRetries: 2
MaxRetries == 2
MaxAttempts == 3
NanosPerSecond == 1000000000

TickHours == TTLHours \div 2

CaptureIDs == 1..MaxCaptures
Clarifiers == 1..MaxClarifiers
Expirers == 1..MaxExpirers
Actors == {"wolf", "wife"}

CategoryIdeas == "Ideas"
CategoryProjects == "Projects"
CategoryFinancial == "Financial"
CategoryHealth == "Health"
CategoryLife == "Life"
CategoryJournal == "Journal"
CategorySpirituality == "Spirituality"
CategoryTasks == "Tasks"

StatusReceived == "received"
StatusNeedsReview == "needs_review"
StatusFiled == "filed"
StatusExpired == "expired"
StatusNotFound == "not_found"
StatusPendingClassification == "pending_classification"
StatusParseError == "parse_error"

\* the "category" strings the LLM may put in its JSON reply
RawCategories == {"Ideas", "health", "Journal"}
\* the "confidence" values of the reply, in tenths
Confidences == {4, 6, 9}
\* the destinations a client may name in POST /clarify
Destinations == {CategoryIdeas, CategoryJournal}

VARIABLES
    now,            \* wall clock, hours
    pending,        \* table pending_clarifications: capture_id -> row
    capture_log,    \* table capture_log: capture_id -> row
    vaultLog,       \* Log/captures.jsonl: <<capture_id, status>> -> number of lines
    notes,          \* notes written to the vault
    ncap,           \* POST /capture requests served so far
    lastCapture,    \* the last POST /capture: its classification and its response
    dbLogCall,      \* the last call of db.LogCapture and what it returned
    cpc, creq,      \* POST /clarify workers: position, request in hand
    lastClarify,    \* the last response of POST /clarify
    epc, enow, eselected, eupdated, etodo,  \* expire-pending runs
    rawFiles,       \* Journal/Raw: the raw capture files
    stateFile,      \* _meta/journal_state.json
    daily,          \* Journal/Daily: the batches appended, in order
    mapLog,         \* _meta/journal_map.jsonl: the mapping lines, in order
    nupd,           \* Update() calls started so far
    upc,            \* position of the running Update()
    ustate,         \* its in-memory JournalState
    uqueue,         \* its batches still to process
    ucur,           \* the pipeline result of its batch in hand
    lastEnd,        \* how the previous Update() ended
    uresult         \* result.ProcessedCount of the Update() running or last returned

pendingVars == <<now, pending, capture_log, vaultLog, notes, ncap, lastCapture,
                 dbLogCall, cpc, creq, lastClarify, epc, enow, eselected, eupdated, etodo>>

narratorVars == <<rawFiles, stateFile, daily, mapLog, nupd, upc, ustate, uqueue, ucur,
                  lastEnd, uresult>>

VARIABLES
    prun,           \* the last processBatch call: its batch, the LLM's replies, its result
    dfile,          \* Journal/Daily/<date>.md as a reader sees it: its lines, NULL if absent
    dtmp,           \* <date>.md.tmp, NULL if absent
    dwriter,        \* the Writer call in hand and its position
    dold,           \* the file when that call began
    dnew,           \* the file that call is to leave
    dclock,         \* time.Now() of the Writer, one tick per call
    signals,        \* table signals: key -> row
    sinit,          \* the table the run started from
    sclock,         \* the wall clock of the signal layer, in days
    booster,        \* the BoostSignal calls in flight: position, arguments, row read
    boosted,        \* key -> BoostSignal calls that wrote it
    nboost,         \* BoostSignal calls started
    sdecay,         \* DecayAllSignals runs so far, the day and the result of the last
    async,          \* goroutines the handlers started that have not finished
    asyncLog        \* how the finished ones ended

dailyVars == <<dfile, dtmp, dwriter, dold, dnew, dclock>>

signalVars == <<signals, sinit, sclock, booster, boosted, nboost, sdecay>>

asyncVars == <<async, asyncLog>>

VARIABLES
    ledger          \* purchases: the transactions in the vault ledger and in the store

purchaseVars == <<ledger>>

VARIABLES
    gen,            \* the LLM client call in hand: position, attempt, context, what it did
    ngen            \* Generate / GenerateText calls started

llmVars == <<gen, ngen>>

VARIABLES
    afile,          \* the target path of WriteFileAtomic: its content, NULL if absent
    atmps,          \* the .tmp-* files in its directory: name -> content
    aw,             \* the WriteFileAtomic call in hand: position, attempt, temp file, result
    anum            \* WriteFileAtomic calls started and temp files created

atomicVars == <<afile, atmps, aw, anum>>

VARIABLES
    lday,           \* the scheduler's day; day 0 is a Sunday
    ljob,           \* per letter type: the day of the last run and the actors it has left
    letterFiles,    \* Letters/{Daily|Weekly}/<for_date>.md: path -> file
    letterRows,     \* table letters: letter_id -> row
    generated,      \* path -> the text the generator returned for the letter in the file
    lastLetters     \* the last response of GET /letters

letterVars == <<lday, ljob, letterFiles, letterRows, generated, lastLetters>>

VARIABLES
    cu,             \* the Update() calls of concurrent goroutines: position and locals
    cappended,      \* the batches whose AppendToDaily returned nil, by caller
    ctmp,           \* Journal/Daily/<date>.md.tmp per date, NULL if absent
    cstmp           \* _meta/journal_state.json.tmp, NULL if absent

concVars == <<cu, cappended, ctmp, cstmp>>

VARIABLES
    noteFiles,      \* the note files of the vault: path -> the note written there last
    nfiled          \* the captures whose note write returned nil

noteVars == <<noteFiles, nfiled>>

VARIABLES
    evidence,       \* the WindowEvidence of the profile in hand, NULL for a profile given directly
    profile,        \* the DayProfile in hand
    themesSeen      \* the themes selected so far from this evidence

selVars == <<evidence, profile, themesSeen>>

\* the variables of the subsystems above
settledVars == <<pendingVars, narratorVars, prun, dailyVars, signalVars, asyncVars,
                 purchaseVars, llmVars, atomicVars, letterVars, concVars, noteVars>>

VARIABLES
    stamps,         \* evidence.Timestamps of the window in hand
    shape           \* profile.TemporalShape, "" until it is set

shapeVars == <<stamps, shape>>

VARIABLES
    lfile,          \* the bytes of the file AppendLine appends to, block by block
    la,             \* the AppendLine call in hand, or the last one with its result
    lcalls          \* AppendLine calls so far

appendVars == <<lfile, la, lcalls>>

VARIABLES
    proc,           \* where main is: serving, draining, stopping, closing, closed, exited
    inflight,       \* requests whose handler is active
    spawned,        \* boostSignals goroutines: request -> BoostSignal calls left
    job,            \* the scheduler's job: idle or running
    dbClosed,       \* database.Close() was called
    storeOps,       \* store operations issued: by whom, and whether after Close
    closedWith      \* what was active when the store was closed

shutVars == <<proc, inflight, spawned, job, dbClosed, storeOps, closedWith>>

tailVars == <<selVars, shapeVars, appendVars, shutVars>>

lateVars == <<purchaseVars, llmVars, atomicVars, letterVars, concVars, noteVars, tailVars>>

otherVars == <<prun, dailyVars, signalVars, asyncVars, lateVars>>

NULL == <<>>
Some(t) == <<t>>

(***************************************************************************)
(* Classifier                                                              *)
(***************************************************************************)
validateCategory(cat) ==
    CASE cat \in {"Ideas", "ideas"} -> CategoryIdeas
      [] cat \in {"Projects", "projects"} -> CategoryProjects
      [] cat \in {"Financial", "financial"} -> CategoryFinancial
      [] cat \in {"Health", "health"} -> CategoryHealth
      [] cat \in {"Life", "life"} -> CategoryLife
      [] OTHER -> ""

allCategories ==
    <<CategoryIdeas, CategoryProjects, CategoryFinancial, CategoryHealth, CategoryLife>>

SelectSeqNot(s, x) == SelectSeq(s, LAMBDA c : c # x)

suggestChoices(primaryChoice) ==
    LET choices == <<primaryChoice>> \o SelectSeqNot(allCategories, primaryChoice)
    IN  IF Len(choices) > MaxChoices THEN SubSeq(choices, 1, MaxChoices) ELSE choices

\* replies of the LLM to the classification prompt
LLMReplies ==
    {[kind |-> k, category |-> "", confidence |-> 0] : k \in {"transport", "malformed"}}
    \cup {[kind |-> "json", category |-> c, confidence |-> k] :
            c \in RawCategories, k \in Confidences}

ParseErrorResult ==
    [err |-> FALSE, Category |-> "", Confidence |-> 0, NeedsReview |-> TRUE,
     Choices |-> suggestChoices(""), ParseError |-> TRUE]

Classify(reply) ==
    IF reply.kind = "transport"
    THEN [err |-> TRUE, Category |-> "", Confidence |-> 0, NeedsReview |-> FALSE,
          Choices |-> <<>>, ParseError |-> FALSE]
    ELSE IF reply.kind = "malformed" THEN ParseErrorResult
    ELSE IF validateCategory(reply.category) = "" THEN ParseErrorResult
    ELSE IF reply.confidence < ConfidenceThreshold
         THEN [err |-> FALSE, Category |-> validateCategory(reply.category),
               Confidence |-> reply.confidence, NeedsReview |-> TRUE,
               Choices |-> suggestChoices(reply.category), ParseError |-> FALSE]
         ELSE [err |-> FALSE, Category |-> validateCategory(reply.category),
               Confidence |-> reply.confidence, NeedsReview |-> FALSE,
               Choices |-> <<>>, ParseError |-> FALSE]

(***************************************************************************)
(* Durable store                                                           *)
(***************************************************************************)
\* LogCapture as INSERT OR REPLACE: a second row for a capture_id takes the
\* place of the first
LogCaptureDB_Replace(log, id, actor, routedTo, status, t, ioOK) ==
    IF ioOK
    THEN [err |-> FALSE,
          log |-> [i \in DOMAIN log \cup {id} |->
                      IF i = id
                      THEN [actor |-> actor, routed_to |-> routedTo,
                            status |-> status, created_at |-> t]
                      ELSE log[i]]]
    ELSE [err |-> TRUE, log |-> log]

\* INSERT INTO capture_log: capture_id is UNIQUE; ioOK is the store accepting
\* the statement at all (no busy timeout, no disk error)
LogCaptureDB(log, id, actor, routedTo, status, t, ioOK) ==
    IF ioOK /\ id \notin DOMAIN log
    THEN [err |-> FALSE,
          log |-> log @@ (id :> [actor |-> actor, routed_to |-> routedTo,
                                 status |-> status, created_at |-> t])]
    ELSE [err |-> TRUE, log |-> log]

\* INSERT INTO pending_clarifications: capture_id is the PRIMARY KEY
AddPending(tbl, id, actor, choices, t, ioOK) ==
    IF ioOK /\ id \notin DOMAIN tbl
    THEN [err |-> FALSE,
          tbl |-> tbl @@ (id :> [actor |-> actor, choices |-> choices,
                                 created_at |-> t, expires_at |-> t + TTLHours,
                                 resolved_at |-> NULL, destination |-> "NULL"])]
    ELSE [err |-> TRUE, tbl |-> tbl]

\* GetPending: WHERE actor = ? AND resolved_at IS NULL AND expires_at > now
GetPending(tbl, actor, t) ==
    {id \in DOMAIN tbl : /\ tbl[id].actor = actor
                         /\ tbl[id].resolved_at = NULL
                         /\ tbl[id].expires_at > t}

\* GetPendingByID: WHERE capture_id = ? AND resolved_at IS NULL
GetPendingByID(tbl, id) ==
    IF id \in DOMAIN tbl /\ tbl[id].resolved_at = NULL THEN Some(tbl[id]) ELSE NULL

\* ResolvePending's WHERE clause without the resolved_at IS NULL test
ResolveMatches_AnyRow(row, t) ==
    row.expires_at > t

\* ResolvePending: WHERE ... resolved_at IS NULL AND expires_at > now
ResolveMatches(row, t) ==
    row.resolved_at = NULL /\ row.expires_at > t

\* ResolvePending: one UPDATE; returns affected > 0
ResolvePending(tbl, id, destination, t) ==
    IF id \in DOMAIN tbl /\ ResolveMatches(tbl[id], t)
    THEN [resolved |-> TRUE,
          tbl |-> [tbl EXCEPT ![id].resolved_at = Some(t), ![id].destination = destination]]
    ELSE [resolved |-> FALSE, tbl |-> tbl]

\* ExpirePending's WHERE clause: resolved_at IS NULL AND expires_at <= now
ExpireMatches(row, t) ==
    row.resolved_at = NULL /\ row.expires_at <= t

\* ExpirePending, first statement: the SELECT
ExpireSelected(tbl, t) ==
    {id \in DOMAIN tbl : ExpireMatches(tbl[id], t)}

\* ExpirePending, second statement: the UPDATE
ExpireUpdated(tbl, t) ==
    [id \in DOMAIN tbl |->
        IF ExpireMatches(tbl[id], t)
        THEN [tbl[id] EXCEPT !.resolved_at = Some(t), !.destination = "expired"]
        ELSE tbl[id]]

(***************************************************************************)
(* Vault: Log/captures.jsonl and notes                                     *)
(***************************************************************************)
AttemptResults == {"ok", "nowrite", "syncfail"}

\* AppendLine under one script of attempt results: the lines the file gains
\* and whether the caller gets an error.  An attempt whose write succeeded
\* and whose fsync failed has added the line and is retried.
RECURSIVE AppendLineFrom(_, _, _)
AppendLineFrom(script, attempt, lines) ==
    IF attempt > AppendAttempts THEN [lines |-> lines, err |-> TRUE]
    ELSE CASE script[attempt] = "ok" -> [lines |-> lines + 1, err |-> FALSE]
           [] script[attempt] = "nowrite" -> AppendLineFrom(script, attempt + 1, lines)
           [] script[attempt] = "syncfail" -> AppendLineFrom(script, attempt + 1, lines + 1)

AppendLine(script) == AppendLineFrom(script, 1, 0)

AppendLineOutcomes == {AppendLine(s) : s \in [1..AppendAttempts -> AttemptResults]}

\* Vault.LogCapture(entry): AppendLine on Log/captures.jsonl under logLock
VaultLogCapture(vlog, id, status, out) ==
    [vlog EXCEPT ![<<id, status>>] = @ + out.lines]

LogStatuses == {StatusFiled, StatusNeedsReview, StatusParseError,
                StatusPendingClassification, StatusExpired}

(***************************************************************************)
(* Initial state of the capture / clarify / expiry machine                 *)
(***************************************************************************)
EmptyTable == [id \in {} |-> 0]
NoRequest == [id |-> 0, destination |-> "", atLookup |-> ""]
NoReply == [id |-> 0, http |-> 0, status |-> "", code |-> "",
            atLookup |-> "", atResolve |-> ""]

PendingInit ==
    /\ now = 0
    /\ pending = EmptyTable
    /\ capture_log = EmptyTable
    /\ vaultLog = [k \in CaptureIDs \X LogStatuses |-> 0]
    /\ notes = {}
    /\ ncap = 0
    /\ lastCapture = [id |-> 0, actor |-> "", class |-> "", choices |-> <<>>,
                      http |-> 0, status |-> "", code |-> ""]
    /\ dbLogCall = [id |-> 0, err |-> FALSE, existed |-> FALSE]
    /\ cpc = [c \in Clarifiers |-> "idle"]
    /\ creq = [c \in Clarifiers |-> NoRequest]
    /\ lastClarify = NoReply
    /\ epc = [e \in Expirers |-> "idle"]
    /\ enow = [e \in Expirers |-> 0]
    /\ eselected = [e \in Expirers |-> {}]
    /\ eupdated = [e \in Expirers |-> NULL]
    /\ etodo = [e \in Expirers |-> {}]

\* the state of a pending row as a request sees it at time t
RowState(tbl, id, t) ==
    IF id \notin DOMAIN tbl THEN "missing"
    ELSE IF tbl[id].resolved_at # NULL
         THEN (IF tbl[id].destination = "expired" THEN "expired_by_job" ELSE "resolved")
    ELSE IF t >= tbl[id].expires_at THEN "expired"
    ELSE "active"

(***************************************************************************)
(* POST /capture, note mode                                                *)
(***************************************************************************)
FullChoices ==
    <<CategoryIdeas, CategoryProjects, CategoryFinancial, CategoryHealth,
      CategoryLife, CategoryJournal, CategorySpirituality, CategoryTasks>>

ClassOf(res) ==
    IF res.err THEN "transport"
    ELSE IF res.ParseError THEN "parse_error"
    ELSE IF res.NeedsReview THEN "low"
    ELSE "ok"

\* Capture: the goroutines started once the note is written
CaptureSpawns(id, category) ==
    {[kind |-> "boostSignals", from |-> "capture", id |-> id]}
    \cup (IF category = CategoryJournal
          THEN {[kind |-> "narrateJournal", from |-> "capture", id |-> id]} ELSE {})
    \cup (IF category = CategoryIdeas
          THEN {[kind |-> "expandIdea", from |-> "capture", id |-> id]} ELSE {})

\* Clarify: the goroutines started once the note is written
ClarifySpawns(id, destination) ==
    {[kind |-> "boostSignals", from |-> "clarify", id |-> id]}
    \cup (IF destination = CategoryJournal
          THEN {[kind |-> "narrateJournal", from |-> "clarify", id |-> id]} ELSE {})

\* handleClassificationFailure: every store and vault error is dropped
handleClassificationFailure(actor, id, res, dbOK, vout, addOK) ==
    LET logged == LogCaptureDB(capture_log, id, actor, "", StatusPendingClassification, now, dbOK)
        added == AddPending(pending, id, actor, FullChoices, now, addOK)
    IN  /\ capture_log' = logged.log
        /\ dbLogCall' = [id |-> id, err |-> logged.err,
                         existed |-> id \in DOMAIN capture_log]
        /\ vaultLog' = VaultLogCapture(vaultLog, id, StatusPendingClassification, vout)
        /\ pending' = added.tbl
        /\ notes' = notes
        /\ async' = async
        /\ lastCapture' = [id |-> id, actor |-> actor, class |-> ClassOf(res),
                           choices |-> FullChoices, http |-> 200,
                           status |-> StatusNeedsReview, code |-> ""]

CaptureStatus(res) ==
    IF res.ParseError THEN StatusParseError
    ELSE IF res.NeedsReview THEN StatusNeedsReview
    ELSE StatusFiled

\* Capture after a classifier result: log to the store and the vault (errors
\* are only logged), then either queue for review or write the note
CaptureClassified(actor, id, res, dbOK, vout, addOK, writeOK) ==
    LET status == CaptureStatus(res)
        logged == LogCaptureDB(capture_log, id, actor, res.Category, status, now, dbOK)
        added == AddPending(pending, id, actor, res.Choices, now, addOK)
    IN  /\ capture_log' = logged.log
        /\ dbLogCall' = [id |-> id, err |-> logged.err,
                         existed |-> id \in DOMAIN capture_log]
        /\ vaultLog' = VaultLogCapture(vaultLog, id, status, vout)
        /\ IF res.NeedsReview
           THEN /\ pending' = added.tbl
                /\ notes' = notes
                /\ async' = async
                /\ lastCapture' = [id |-> id, actor |-> actor,
                                   class |-> ClassOf(res), choices |-> res.Choices,
                                   http |-> 200, status |-> StatusNeedsReview, code |-> ""]
           ELSE /\ pending' = pending
                /\ IF writeOK
                   THEN /\ notes' = notes \cup {[id |-> id, category |-> res.Category]}
                        /\ async' = async \cup CaptureSpawns(id, res.Category)
                        /\ lastCapture' = [id |-> id, actor |-> actor,
                                           class |-> ClassOf(res), choices |-> <<>>,
                                           http |-> 200, status |-> StatusReceived, code |-> ""]
                   ELSE /\ notes' = notes
                        /\ async' = async
                        /\ lastCapture' = [id |-> id, actor |-> actor,
                                           class |-> ClassOf(res), choices |-> <<>>,
                                           http |-> 500, status |-> "", code |-> "WRITE_ERROR"]

Capture(actor, id, reply, dbOK, vout, addOK, writeOK) ==
    /\ ncap' = ncap + 1
    /\ LET res == Classify(reply)
       IN  IF res.err
           THEN handleClassificationFailure(actor, id, res, dbOK, vout, addOK)
           ELSE CaptureClassified(actor, id, res, dbOK, vout, addOK, writeOK)
    /\ UNCHANGED <<now, cpc, creq, lastClarify, epc, enow, eselected, eupdated, etodo>>
    /\ UNCHANGED <<narratorVars, prun, dailyVars, signalVars, asyncLog, lateVars>>

(***************************************************************************)
(* POST /capture, purchase mode                                            *)
(***************************************************************************)
PurchaseConfidence == 5
PurchaseChoices == <<"Confirm transaction", "Not a transaction", "Rephrase">>

\* replies of ParseTransaction: an error with a nil result, or a transaction
TransactionReplies ==
    {[err |-> TRUE, confidence |-> 0]}
    \cup {[err |-> FALSE, confidence |-> k] : k \in Confidences}

\* handlePurchase: a failed or low-confidence parse queues a clarification,
\* otherwise the transaction goes to the ledger and the store; every store
\* and vault error is dropped or only logged
handlePurchase(actor, id, result, dbOK, vout, addOK, tout, txnOK) ==
    /\ ncap' = ncap + 1
    /\ IF result.err \/ result.confidence < PurchaseConfidence
       THEN LET logged == LogCaptureDB(capture_log, id, actor, CategoryFinancial,
                                       StatusNeedsReview, now, dbOK)
                added == AddPending(pending, id, actor, PurchaseChoices, now, addOK)
            IN  /\ capture_log' = logged.log
                /\ dbLogCall' = [id |-> id, err |-> logged.err,
                                 existed |-> id \in DOMAIN capture_log]
                /\ vaultLog' = VaultLogCapture(vaultLog, id, StatusNeedsReview, vout)
                /\ pending' = added.tbl
                /\ ledger' = ledger
                /\ lastCapture' = [id |-> id, actor |-> actor, class |-> "purchase_review",
                                   choices |-> PurchaseChoices, http |-> 200,
                                   status |-> StatusNeedsReview, code |-> ""]
       ELSE LET logged == LogCaptureDB(capture_log, id, actor, CategoryFinancial,
                                       StatusFiled, now, dbOK)
            IN  /\ ledger' = [vault |-> IF tout.lines > 0 THEN ledger.vault \cup {id}
                                        ELSE ledger.vault,
                              store |-> IF txnOK THEN ledger.store \cup {id}
                                        ELSE ledger.store]
                /\ capture_log' = logged.log
                /\ dbLogCall' = [id |-> id, err |-> logged.err,
                                 existed |-> id \in DOMAIN capture_log]
                /\ vaultLog' = VaultLogCapture(vaultLog, id, StatusFiled, vout)
                /\ pending' = pending
                /\ lastCapture' = [id |-> id, actor |-> actor, class |-> "purchase",
                                   choices |-> <<>>, http |-> 200,
                                   status |-> StatusReceived, code |-> ""]
    /\ UNCHANGED <<now, notes, cpc, creq, lastClarify, epc, enow, eselected, eupdated, etodo>>
    /\ UNCHANGED <<narratorVars, prun, dailyVars, signalVars, asyncVars, llmVars, atomicVars,
                   letterVars, concVars, noteVars, tailVars>>

(***************************************************************************)
(* POST /clarify: GetPendingByID, then ResolvePending, then the note       *)
(***************************************************************************)
ClarifyLookup(c, id, destination, dbOK) ==
    /\ cpc[c] = "idle"
    /\ LET p == GetPendingByID(pending, id)
           at == RowState(pending, id, now)
       IN  IF ~dbOK
           THEN /\ lastClarify' = [id |-> id, http |-> 500, status |-> "", code |-> "DB_ERROR",
                                   atLookup |-> at, atResolve |-> ""]
                /\ UNCHANGED <<cpc, creq>>
           ELSE IF p = NULL
           THEN /\ lastClarify' = [id |-> id, http |-> 404, status |-> StatusNotFound,
                                   code |-> "", atLookup |-> at, atResolve |-> ""]
                /\ UNCHANGED <<cpc, creq>>
           ELSE /\ cpc' = [cpc EXCEPT ![c] = "resolve"]
                /\ creq' = [creq EXCEPT ![c] = [id |-> id, destination |-> destination,
                                                atLookup |-> at]]
                /\ UNCHANGED lastClarify
    /\ UNCHANGED <<now, pending, capture_log, vaultLog, notes, ncap, lastCapture,
                   dbLogCall, epc, enow, eselected, eupdated, etodo>>
    /\ UNCHANGED <<narratorVars, otherVars>>

ClarifyResolve(c, dbOK, writeOK) ==
    /\ cpc[c] = "resolve"
    /\ cpc' = [cpc EXCEPT ![c] = "idle"]
    /\ creq' = [creq EXCEPT ![c] = NoRequest]
    /\ LET id == creq[c].id
           r == ResolvePending(pending, id, creq[c].destination, now)
           reply == [id |-> id, http |-> 0, status |-> "", code |-> "",
                     atLookup |-> creq[c].atLookup,
                     atResolve |-> RowState(pending, id, now)]
       IN  IF ~dbOK
           THEN /\ lastClarify' = [reply EXCEPT !.http = 500, !.code = "RESOLVE_ERROR"]
                /\ UNCHANGED <<pending, notes, async>>
           ELSE IF ~r.resolved
           THEN /\ lastClarify' = [reply EXCEPT !.http = 410, !.status = StatusExpired]
                /\ pending' = r.tbl
                /\ notes' = notes
                /\ async' = async
           ELSE /\ pending' = r.tbl
                /\ IF writeOK
                   THEN /\ notes' = notes \cup {[id |-> id, category |-> creq[c].destination]}
                        /\ async' = async \cup ClarifySpawns(id, creq[c].destination)
                        /\ lastClarify' = [reply EXCEPT !.http = 200, !.status = StatusFiled]
                   ELSE /\ notes' = notes
                        /\ async' = async
                        /\ lastClarify' = [reply EXCEPT !.http = 500, !.code = "WRITE_ERROR"]
    /\ UNCHANGED <<now, capture_log, vaultLog, ncap, lastCapture, dbLogCall,
                   epc, enow, eselected, eupdated, etodo>>
    /\ UNCHANGED <<narratorVars, prun, dailyVars, signalVars, asyncLog, lateVars>>

(***************************************************************************)
(* The expire-pending job: db.ExpirePending (SELECT, then UPDATE), then    *)
(* one vault log entry per returned row                                    *)
(***************************************************************************)
ExpireSelect(e) ==
    /\ epc[e] = "idle"
    /\ epc' = [epc EXCEPT ![e] = "update"]
    /\ enow' = [enow EXCEPT ![e] = now]
    /\ eselected' = [eselected EXCEPT ![e] = ExpireSelected(pending, now)]
    /\ eupdated' = [eupdated EXCEPT ![e] = NULL]
    /\ UNCHANGED <<now, pending, capture_log, vaultLog, notes, ncap, lastCapture,
                   dbLogCall, cpc, creq, lastClarify, etodo>>
    /\ UNCHANGED <<narratorVars, otherVars>>

ExpireUpdate(e, dbOK) ==
    /\ epc[e] = "update"
    /\ IF dbOK
       THEN /\ pending' = ExpireUpdated(pending, enow[e])
            /\ eupdated' = [eupdated EXCEPT ![e] =
                               Some({id \in DOMAIN pending : pending'[id] # pending[id]})]
            /\ etodo' = [etodo EXCEPT ![e] = eselected[e]]
            /\ epc' = [epc EXCEPT ![e] = "log"]
            /\ UNCHANGED <<enow, eselected>>
       ELSE /\ epc' = [epc EXCEPT ![e] = "idle"]
            /\ enow' = [enow EXCEPT ![e] = 0]
            /\ eselected' = [eselected EXCEPT ![e] = {}]
            /\ UNCHANGED <<pending, eupdated, etodo>>
    /\ UNCHANGED <<now, capture_log, vaultLog, notes, ncap, lastCapture, dbLogCall,
                   cpc, creq, lastClarify>>
    /\ UNCHANGED <<narratorVars, otherVars>>

\* the job's loop over the returned rows, one vault.LogCapture per step
ExpireLog(e, id, vout) ==
    /\ epc[e] = "log"
    /\ id \in etodo[e]
    /\ vaultLog' = VaultLogCapture(vaultLog, id, StatusExpired, vout)
    /\ etodo' = [etodo EXCEPT ![e] = @ \ {id}]
    /\ UNCHANGED <<now, pending, capture_log, notes, ncap, lastCapture, dbLogCall,
                   cpc, creq, lastClarify, epc, enow, eselected, eupdated>>
    /\ UNCHANGED <<narratorVars, otherVars>>

\* the job returns: its locals are gone
ExpireReturn(e) ==
    /\ epc[e] = "log"
    /\ etodo[e] = {}
    /\ epc' = [epc EXCEPT ![e] = "idle"]
    /\ enow' = [enow EXCEPT ![e] = 0]
    /\ eselected' = [eselected EXCEPT ![e] = {}]
    /\ eupdated' = [eupdated EXCEPT ![e] = NULL]
    /\ UNCHANGED <<now, pending, capture_log, vaultLog, notes, ncap, lastCapture,
                   dbLogCall, cpc, creq, lastClarify, etodo>>
    /\ UNCHANGED <<narratorVars, otherVars>>

Tick ==
    /\ now + TickHours <= MaxTicks * TickHours
    /\ now' = now + TickHours
    /\ UNCHANGED <<pending, capture_log, vaultLog, notes, ncap, lastCapture, dbLogCall,
                   cpc, creq, lastClarify, epc, enow, eselected, eupdated, etodo>>
    /\ UNCHANGED <<narratorVars, otherVars>>

\* POST /capture with any classifier reply and any store / vault outcome
CaptureAny ==
    /\ ncap < MaxFullCaptures
    /\ \E actor \in Actors, id \in CaptureIDs, reply \in LLMReplies,
          dbOK \in BOOLEAN, vout \in AppendLineOutcomes, addOK \in BOOLEAN,
          writeOK \in BOOLEAN :
            Capture(actor, id, reply, dbOK, vout, addOK, writeOK)

\* POST /capture of a low-confidence note whose vault writes succeed: the
\* request that queues a clarification
LowConfidenceReply == [kind |-> "json", category |-> "Ideas", confidence |-> 4]
AppendedOnce == AppendLine([a \in 1..AppendAttempts |-> "ok"])
ReviewIDs == 1..MaxReviewIDs
CaptureForReview ==
    /\ ncap < MaxCaptureCalls
    /\ \E id \in ReviewIDs :
            Capture("wolf", id, LowConfidenceReply, TRUE, AppendedOnce, TRUE, TRUE)

\* POST /clarify by the workers Cs, the store and the vault answering from IO
Clarify(Cs, IO) ==
    \/ \E c \in Cs, id \in CaptureIDs, d \in Destinations, dbOK \in IO :
            ClarifyLookup(c, id, d, dbOK)
    \/ \E c \in Cs, dbOK \in IO, writeOK \in IO :
            ClarifyResolve(c, dbOK, writeOK)

\* runs Es of the expire-pending job, AppendLine ending as one of Outs
expirePending(Es, Outs) ==
    \/ \E e \in Es : ExpireSelect(e)
    \/ \E e \in Es, dbOK \in BOOLEAN : ExpireUpdate(e, dbOK)
    \/ \E e \in Es, id \in CaptureIDs, vout \in Outs : ExpireLog(e, id, vout)
    \/ \E e \in Es : ExpireReturn(e)

(***************************************************************************)
(* Journal narrator: raw files, scanner, pipeline, Update()                *)
(***************************************************************************)
Instants == 1..MaxInstant
Offsets == {0, MaxOffset}

\* WriteRawJournalCapture: the file name carries the date of note.Created in
\* the zone of the client's timestamp, the frontmatter carries the instant
RawFile(name, created, offset) ==
    [name |-> name, created |-> created, day |-> (created + offset) \div DayLen]

ZeroState == [LastProcessedRaw |-> 0, LastProcessedTS |-> 0, CurrentDay |-> -1]

\* a filter that also takes the entry the watermark points at
Unprocessed_AtOrAfter(files, lastProcessedTS) ==
    {f \in files : f.created >= lastProcessedTS}

\* ScanUnprocessed: the filter rawEntry.Created.After(lastProcessedTS)
Unprocessed(files, lastProcessedTS) ==
    {f \in files : f.created > lastProcessedTS}

\* ScanUnprocessed: sort.Slice by Created (entries of one instant in any order)
SortedByCreated(S) ==
    {q \in [1..Cardinality(S) -> S] :
        \A i, j \in 1..Cardinality(S) :
            i < j => (q[i] # q[j] /\ q[i].created <= q[j].created)}

ScanUnprocessed(files, lastProcessedTS) ==
    SortedByCreated(Unprocessed(files, lastProcessedTS))

GroupByDate(entries, date) == SelectSeq(entries, LAMBDA e : e.day = date)

GetUniqueDates(entries) == {entries[i].day : i \in DOMAIN entries}

\* Update: for i := 0; i < len(dayEntries); i += n.config.BatchSize
RECURSIVE DayBatches(_, _)
DayBatches(date, dayEntries) ==
    IF Len(dayEntries) = 0 THEN <<>>
    ELSE IF Len(dayEntries) <= BatchSize THEN << [date |-> date, entries |-> dayEntries] >>
    ELSE << [date |-> date, entries |-> SubSeq(dayEntries, 1, BatchSize)] >>
         \o DayBatches(date, SubSeq(dayEntries, BatchSize + 1, Len(dayEntries)))

\* Update: for _, date := range dates (sorted), the batches of each day
RECURSIVE UpdateBatches(_, _)
UpdateBatches(entries, dates) ==
    IF dates = {} THEN <<>>
    ELSE LET date == CHOOSE d \in dates : \A o \in dates : d <= o
         IN  DayBatches(date, GroupByDate(entries, date))
             \o UpdateBatches(entries, dates \ {date})

Filenames(entries) == [i \in DOMAIN entries |-> entries[i].name]

\* what the LLM does to one batch: claim extraction, then one result per
\* narrate-and-verify attempt
ExtractResults == {"ok", "error", "noclaims"}
\* verify_error: llm.Generate failed; verify_malformed: its reply is not JSON
NarrateVerifyResults ==
    {"pass", "fail", "narrate_error", "verify_error", "verify_malformed"}
PipelineScripts ==
    [extract : ExtractResults, attempts : [1..(MaxRetries + 1) -> NarrateVerifyResults]]

PipelineError ==
    [err |-> TRUE, Verified |-> FALSE, Attempts |-> 0, RawFiles |-> <<>>, final |-> ""]

\* a retry loop that fails the batch once its attempts are used up
RECURSIVE NarrateAndVerify_FailWhenExhausted(_, _, _)
NarrateAndVerify_FailWhenExhausted(filenames, script, attempts) ==
    IF ~(attempts < MaxRetries + 1)
    THEN PipelineError
    ELSE CASE script[attempts + 1] \in {"narrate_error", "verify_error",
                                        "verify_malformed"} -> PipelineError
           [] script[attempts + 1] = "pass" ->
                [err |-> FALSE, Verified |-> TRUE, Attempts |-> attempts + 1,
                 RawFiles |-> filenames, final |-> "pass"]
           [] OTHER -> NarrateAndVerify_FailWhenExhausted(filenames, script, attempts + 1)

\* Pipeline.Process, the loop for attempts < p.maxRetries+1
RECURSIVE NarrateAndVerify(_, _, _)
NarrateAndVerify(filenames, script, attempts) ==
    IF ~(attempts < MaxRetries + 1)
    THEN [err |-> FALSE, Verified |-> FALSE, Attempts |-> attempts,
          RawFiles |-> filenames, final |-> script[attempts]]
    ELSE CASE script[attempts + 1] \in {"narrate_error", "verify_error",
                                        "verify_malformed"} -> PipelineError
           [] script[attempts + 1] = "pass" ->
                [err |-> FALSE, Verified |-> TRUE, Attempts |-> attempts + 1,
                 RawFiles |-> filenames, final |-> "pass"]
           [] OTHER -> NarrateAndVerify(filenames, script, attempts + 1)

\* Pipeline.Process; final is the result of the last verification it ran
Process(entries, script) ==
    IF Len(entries) = 0 \/ script.extract # "ok" THEN PipelineError
    ELSE NarrateAndVerify(Filenames(entries), script.attempts, 0)

PipelineOutcomes(entries) == {Process(entries, script) : script \in PipelineScripts}

\* processBatch: the NarrationMapping it hands to AppendMapping
NarrationMapping(date, pipelineResult) ==
    [Day |-> date, RawFiles |-> pipelineResult.RawFiles,
     VerifierPassed |-> pipelineResult.Verified]

NarratorInit ==
    /\ rawFiles = {}
    /\ stateFile = ZeroState
    /\ daily = <<>>
    /\ mapLog = <<>>
    /\ nupd = 0
    /\ upc = "idle"
    /\ ustate = ZeroState
    /\ uqueue = <<>>
    /\ ucur = NULL
    /\ lastEnd = "none"
    /\ uresult = 0

\* a Journal capture is filed: one more file in Journal/Raw
AddRaw(created, offset) ==
    /\ Cardinality(rawFiles) < MaxRawFiles
    /\ rawFiles' = rawFiles \cup {RawFile(Cardinality(rawFiles) + 1, created, offset)}
    /\ UNCHANGED <<stateFile, daily, mapLog, nupd, upc, ustate, uqueue, ucur, lastEnd,
                   uresult>>
    /\ UNCHANGED <<pendingVars, otherVars>>

\* Update: LoadState, ScanUnprocessed, grouping into batches
UpdateScan(loadOK) ==
    /\ upc = "idle"
    /\ uresult' = 0
    /\ IF ~loadOK
       THEN /\ lastEnd' = "error"
            /\ UNCHANGED <<upc, ustate, uqueue>>
       ELSE \E entries \in ScanUnprocessed(rawFiles, stateFile.LastProcessedTS) :
              IF Len(entries) = 0
              THEN /\ lastEnd' = "returned"
                   /\ UNCHANGED <<upc, ustate, uqueue>>
              ELSE /\ upc' = "batch"
                   /\ ustate' = stateFile
                   /\ uqueue' = UpdateBatches(entries, GetUniqueDates(entries))
                   /\ UNCHANGED lastEnd
    /\ UNCHANGED <<rawFiles, stateFile, daily, mapLog, ucur>>
    /\ UNCHANGED <<pendingVars, otherVars>>

\* one of the Update() calls that are counted
UpdateStart(loadOK) ==
    /\ nupd < MaxUpdates
    /\ nupd' = nupd + 1
    /\ UpdateScan(loadOK)

\* Update() is called again, as the triggers and the nightly job keep doing
UpdateAgain(loadOK) ==
    /\ nupd = MaxUpdates
    /\ nupd' = nupd
    /\ UpdateScan(loadOK)

\* the batch in hand is done (processed or failed): next batch, or SaveState
NextBatch == IF Len(uqueue) > 1 THEN "batch" ELSE "save"

\* processBatch: pipeline.Process; an error makes Update continue
ProcessPipeline ==
    /\ upc = "batch"
    /\ \E result \in PipelineOutcomes(Head(uqueue).entries) :
          IF result.err
          THEN /\ uqueue' = Tail(uqueue)
               /\ upc' = NextBatch
               /\ ucur' = NULL
          ELSE /\ ucur' = Some(result)
               /\ upc' = "append"
               /\ UNCHANGED uqueue
    /\ UNCHANGED <<rawFiles, stateFile, daily, mapLog, nupd, ustate, lastEnd, uresult>>
    /\ UNCHANGED <<pendingVars, otherVars>>

\* processBatch: writer.AppendToDaily; an error makes Update continue
AppendToDaily(ok) ==
    /\ upc = "append"
    /\ IF ok
       THEN /\ daily' = Append(daily, [date |-> Head(uqueue).date,
                                       files |-> Filenames(Head(uqueue).entries),
                                       final |-> ucur[1].final,
                                       mapping |-> "none"])
            /\ upc' = "map"
            /\ UNCHANGED <<uqueue, ucur>>
       ELSE /\ uqueue' = Tail(uqueue)
            /\ upc' = NextBatch
            /\ ucur' = NULL
            /\ UNCHANGED daily
    /\ UNCHANGED <<rawFiles, stateFile, mapLog, nupd, ustate, lastEnd, uresult>>
    /\ UNCHANGED <<pendingVars, otherVars>>

\* processBatch: state.AppendMapping (an error is a warning), then the
\* in-memory state moves to the last entry of the batch
AppendMapping(ok) ==
    /\ upc = "map"
    /\ LET batch == Head(uqueue)
           lastEntry == batch.entries[Len(batch.entries)]
       IN  /\ mapLog' = IF ok
                        THEN Append(mapLog, [line |-> NarrationMapping(batch.date, ucur[1]),
                                             batch |-> Len(daily)])
                        ELSE mapLog
           /\ daily' = [daily EXCEPT ![Len(daily)].mapping = IF ok THEN "ok" ELSE "failed"]
           /\ ustate' = [LastProcessedRaw |-> lastEntry.name,
                         LastProcessedTS |-> lastEntry.created,
                         CurrentDay |-> batch.date]
    /\ uqueue' = Tail(uqueue)
    /\ upc' = NextBatch
    /\ ucur' = NULL
    /\ uresult' = uresult + Len(Head(uqueue).entries)
    /\ UNCHANGED <<rawFiles, stateFile, nupd, lastEnd>>
    /\ UNCHANGED <<pendingVars, otherVars>>

\* Update: state.SaveState (temp file, then rename) and return
SaveState(ok) ==
    /\ upc = "save"
    /\ stateFile' = IF ok THEN ustate ELSE stateFile
    /\ lastEnd' = IF ok THEN "returned" ELSE "error"
    /\ upc' = "idle"
    /\ ustate' = ZeroState
    /\ UNCHANGED <<rawFiles, daily, mapLog, nupd, uqueue, ucur, uresult>>
    /\ UNCHANGED <<pendingVars, otherVars>>

\* the process dies inside Update(): only the files survive
Crash ==
    /\ upc # "idle"
    /\ upc' = "idle"
    /\ ustate' = ZeroState
    /\ uqueue' = <<>>
    /\ ucur' = NULL
    /\ lastEnd' = "crash"
    /\ uresult' = 0
    /\ UNCHANGED <<rawFiles, stateFile, daily, mapLog, nupd>>
    /\ UNCHANGED <<pendingVars, otherVars>>

Update ==
    \/ \E loadOK \in BOOLEAN : UpdateStart(loadOK)
    \/ ProcessPipeline
    \/ \E ok \in BOOLEAN : AppendToDaily(ok)
    \/ \E ok \in BOOLEAN : AppendMapping(ok)
    \/ \E ok \in BOOLEAN : SaveState(ok)

WriteRawJournalCapture == \E created \in Instants, offset \in Offsets : AddRaw(created, offset)

(***************************************************************************)
(* Daily file writer: a file is the lines strings.Split(content, "\n")     *)
(* gives, a line is <<key, rest>>: "key: rest", or <<"", text>>            *)
(***************************************************************************)
Dashes == <<"", "---">>
Blank == <<"", "">>

\* pipeline.narrate: strings.TrimSpace(response), whatever the LLM wrote
NarratedTexts ==
    { << <<"", "walked">> >>,
      << <<"status", "calm">>, <<"updated_at", "noon">> >>,
      << <<"", "before">>, Dashes, <<"status", "after">> >> }

\* time.Now().Format(time.RFC3339)
FormatRFC3339(t) == "T" \o ToString(t)

\* a loop that rewrites every line carrying the field, front-matter or not
updateFrontmatterField_AnyLine(content, field, value) ==
    [i \in DOMAIN content |->
        IF content[i][1] = field THEN <<field, value>> ELSE content[i]]

\* updateFrontmatterField: the loop over lines from line i on
RECURSIVE updateFrontmatterLines(_, _, _, _, _, _)
updateFrontmatterLines(lines, i, field, value, inFrontmatter, fieldFound) ==
    IF i > Len(lines) THEN <<>>
    ELSE IF i = 1 /\ lines[i] = Dashes
         THEN <<lines[i]>> \o updateFrontmatterLines(lines, i + 1, field, value,
                                                    TRUE, fieldFound)
    ELSE IF inFrontmatter /\ lines[i] = Dashes
         THEN (IF fieldFound THEN <<>> ELSE << <<field, value>> >>) \o <<lines[i]>>
              \o updateFrontmatterLines(lines, i + 1, field, value, FALSE, fieldFound)
    ELSE IF inFrontmatter /\ lines[i][1] = field
         THEN << <<field, value>> >>
              \o updateFrontmatterLines(lines, i + 1, field, value, inFrontmatter, TRUE)
    ELSE <<lines[i]>> \o updateFrontmatterLines(lines, i + 1, field, value,
                                                inFrontmatter, fieldFound)

updateFrontmatterField(content, field, value) ==
    updateFrontmatterLines(content, 1, field, value, FALSE, FALSE)

\* strings.TrimRight(content, "\n")
RECURSIVE TrimRight(_)
TrimRight(lines) ==
    IF Len(lines) > 1 /\ lines[Len(lines)] = Blank
    THEN TrimRight(SubSeq(lines, 1, Len(lines) - 1))
    ELSE lines

\* createDailyFile: the front-matter it formats, ending "---\n\n"
Frontmatter(date, t) ==
    <<Dashes, <<"date", date>>, <<"status", "open">>, <<"updated_at", FormatRFC3339(t)>>,
      Dashes, Blank, Blank>>

\* createDailyFile: front-matter, then content + "\n"
createDailyFile(date, content, t) ==
    SubSeq(Frontmatter(date, t), 1, 6) \o content \o <<Blank>>

\* appendToDailyFile: the content it writes to the temp file
appendToDailyFile(existingContent, content, t) ==
    TrimRight(updateFrontmatterField(existingContent, "updated_at", FormatRFC3339(t)))
    \o <<Blank, Dashes, Blank>> \o content \o <<Blank>>

\* CloseDay: the content it writes to the temp file
CloseDay(content, t) ==
    updateFrontmatterField(updateFrontmatterField(content, "status", "closed"),
                           "updated_at", FormatRFC3339(t))

\* Writer.AppendToDaily up to its first write: os.Create of a missing file,
\* or os.WriteFile of the temp file
WriterAppendToDaily(content) ==
    /\ dwriter.pc = "idle"
    /\ dclock < MaxDailyCalls
    /\ dclock' = dclock + 1
    /\ dold' = dfile
    /\ IF dfile = NULL
       THEN /\ dfile' = <<Blank>>
            /\ dnew' = createDailyFile("d1", content, dclock')
            /\ dwriter' = [pc |-> "created", call |-> "create"]
            /\ UNCHANGED dtmp
       ELSE /\ dtmp' = appendToDailyFile(dfile, content, dclock')
            /\ dnew' = dtmp'
            /\ dwriter' = [pc |-> "temp", call |-> "append"]
            /\ UNCHANGED dfile
    /\ UNCHANGED <<pendingVars, narratorVars, prun, signalVars, asyncVars, lateVars>>

\* createDailyFile: f.WriteString(frontmatter)
createWriteFrontmatter ==
    /\ dwriter.pc = "created"
    /\ dfile' = Frontmatter("d1", dclock)
    /\ dwriter' = [dwriter EXCEPT !.pc = "frontmatter"]
    /\ UNCHANGED <<dtmp, dold, dnew, dclock>>
    /\ UNCHANGED <<pendingVars, narratorVars, prun, signalVars, asyncVars, lateVars>>

\* createDailyFile: f.WriteString(content + "\n") and return
createWriteContent ==
    /\ dwriter.pc = "frontmatter"
    /\ dfile' = dnew
    /\ dwriter' = [dwriter EXCEPT !.pc = "idle"]
    /\ UNCHANGED <<dtmp, dold, dnew, dclock>>
    /\ UNCHANGED <<pendingVars, narratorVars, prun, signalVars, asyncVars, lateVars>>

\* Writer.CloseDay up to os.WriteFile of the temp file; nothing to close if
\* the file is missing
WriterCloseDay ==
    /\ dwriter.pc = "idle"
    /\ dclock < MaxDailyCalls
    /\ dclock' = dclock + 1
    /\ dold' = dfile
    /\ IF dfile = NULL
       THEN /\ dnew' = NULL
            /\ dwriter' = [pc |-> "idle", call |-> "close"]
            /\ UNCHANGED dtmp
       ELSE /\ dtmp' = CloseDay(dfile, dclock')
            /\ dnew' = dtmp'
            /\ dwriter' = [pc |-> "temp", call |-> "close"]
    /\ UNCHANGED dfile
    /\ UNCHANGED <<pendingVars, narratorVars, prun, signalVars, asyncVars, lateVars>>

\* appendToDailyFile, CloseDay: os.Rename(tempPath, filePath) and return
RenameTemp ==
    /\ dwriter.pc = "temp"
    /\ dfile' = dtmp
    /\ dtmp' = NULL
    /\ dwriter' = [dwriter EXCEPT !.pc = "idle"]
    /\ UNCHANGED <<dold, dnew, dclock>>
    /\ UNCHANGED <<pendingVars, narratorVars, prun, signalVars, asyncVars, lateVars>>

\* the writer of one daily file, any reader looking at dfile between steps
NextDaily ==
    \/ \E content \in NarratedTexts : WriterAppendToDaily(content)
    \/ createWriteFrontmatter
    \/ createWriteContent
    \/ WriterCloseDay
    \/ RenameTemp

(***************************************************************************)
(* One processBatch call, with the replies the LLM gives it                *)
(***************************************************************************)
\* Process: feedback = result.Feedback plus the unsupported statements, taken
\* from the verification of attempt k
VerifierFeedback(k) == <<"feedback", k>>

\* Process: the narrate and narrateStrict calls the retry loop makes
RECURSIVE NarrationCalls(_, _, _)
NarrationCalls(script, attempts, feedback) ==
    IF ~(attempts < MaxRetries + 1) THEN <<>>
    ELSE LET call == IF attempts + 1 = 1
                     THEN [prompt |-> "narrate", feedback |-> ""]
                     ELSE [prompt |-> "narrateStrict", feedback |-> feedback]
         IN  IF script[attempts + 1] = "fail"
             THEN <<call>> \o NarrationCalls(script, attempts + 1,
                                             VerifierFeedback(attempts + 1))
             ELSE <<call>>

\* the batches Update hands to processBatch: 1..BatchSize entries of one day
PipelineBatches == {[i \in 1..n |-> RawFile(i, 1, 0)] : n \in 1..BatchSize}

(***************************************************************************)
(* Signal layer: weights are counted in 1/Scale, time in days              *)
(***************************************************************************)
\* the (key, signalType) pairs BoostSignal is called with
BoostCalls ==
    {<<"term:sleep", "term">>, <<"cat:Ideas", "category">>, <<"project:brain", "project">>}
SignalKeys == {c[1] : c \in BoostCalls}
Boosters == 1..MaxBoosters
DaySteps == {3, 100}
IdleBooster == [pc |-> "idle", key |-> "", signalType |-> "", existing |-> NULL]

getCap(signalType) ==
    CASE signalType = "term" -> 10 * Scale
      [] signalType = "category" -> 5 * Scale
      [] signalType = "project" -> 10 * Scale
      [] OTHER -> 10 * Scale

getBoost(signalType) ==
    CASE signalType = "term" -> Scale
      [] signalType = "category" -> Scale \div 2
      [] signalType = "project" -> Scale
      [] OTHER -> Scale

FloorProject == (2 * Scale) \div 100

\* math.Exp(-lambda(getHalfLife(signalType)) * days) in thousandths, for
\* days = 1, 10, 100: the half-lives are 3, 7 and 30 days
DecayFactor(signalType) ==
    CASE signalType = "category" -> <<906, 372, 0>>
      [] signalType = "project" -> <<977, 794, 99>>
      [] OTHER -> <<794, 99, 0>>

\* oldWeight * math.Exp(-lam * daysSince), taken 100, 10 and 1 days at a time
RECURSIVE Decayed(_, _, _)
Decayed(oldWeight, daysSince, signalType) ==
    IF daysSince <= 0 THEN oldWeight
    ELSE IF daysSince >= 100
         THEN Decayed((oldWeight * DecayFactor(signalType)[3]) \div 1000,
                      daysSince - 100, signalType)
    ELSE IF daysSince >= 10
         THEN Decayed((oldWeight * DecayFactor(signalType)[2]) \div 1000,
                      daysSince - 10, signalType)
    ELSE Decayed((oldWeight * DecayFactor(signalType)[1]) \div 1000,
                 daysSince - 1, signalType)

\* a decay that has no floor for dominant projects
DecayWeight_NoFloor(oldWeight, daysSince, signalType, everDominant) ==
    Decayed(oldWeight, daysSince, signalType)

DecayWeight(oldWeight, daysSince, signalType, everDominant) ==
    LET newWeight == Decayed(oldWeight, daysSince, signalType)
    IN  IF signalType = "project" /\ everDominant /\ newWeight < FloorProject
        THEN FloorProject
        ELSE newWeight

\* a boost that does not apply the cap
BoostedWeight_NoCap(existing, signalType, t) ==
    IF existing = NULL THEN getBoost(signalType)
    ELSE DecayWeight(existing[1].Weight, t - existing[1].LastUpdated, signalType,
                     existing[1].EverDominant) + getBoost(signalType)

\* BoostSignal: newWeight, from the row GetSignal returned
BoostedWeight(existing, signalType, t) ==
    LET newWeight ==
            IF existing = NULL THEN getBoost(signalType)
            ELSE DecayWeight(existing[1].Weight, t - existing[1].LastUpdated, signalType,
                             existing[1].EverDominant) + getBoost(signalType)
    IN  IF newWeight > getCap(signalType) THEN getCap(signalType) ELSE newWeight

GetSignal(table, key) == IF key \in DOMAIN table THEN Some(table[key]) ELSE NULL

\* INSERT ... ON CONFLICT(key) DO UPDATE SET weight, last_updated
UpsertSignal(table, key, signalType, weight, t) ==
    IF key \in DOMAIN table
    THEN [table EXCEPT ![key].Weight = weight, ![key].LastUpdated = t]
    ELSE [k \in DOMAIN table \cup {key} |->
            IF k = key
            THEN [Type |-> signalType, Weight |-> weight, LastUpdated |-> t,
                  EverDominant |-> FALSE]
            ELSE table[k]]

\* tables the store can hold when a run starts: empty, or every signal half
\* a boost under its cap
SeedTables ==
    { [k \in {} |-> 0],
      [k \in SignalKeys |->
          LET signalType == (CHOOSE c \in BoostCalls : c[1] = k)[2]
          IN  [Type |-> signalType,
               Weight |-> getCap(signalType) - getBoost(signalType) \div 2,
               LastUpdated |-> 0, EverDominant |-> FALSE]] }

\* BoostSignal up to database.GetSignal
BoostGet(b, key, signalType, dbOK) ==
    /\ booster[b].pc = "idle"
    /\ nboost < MaxBoosts
    /\ nboost' = nboost + 1
    /\ booster' = [booster EXCEPT ![b] =
                      IF dbOK
                      THEN [pc |-> "upsert", key |-> key, signalType |-> signalType,
                            existing |-> GetSignal(signals, key)]
                      ELSE IdleBooster]
    /\ UNCHANGED <<signals, sinit, sclock, boosted, sdecay>>
    /\ UNCHANGED <<pendingVars, narratorVars, prun, dailyVars, asyncVars, lateVars>>

\* BoostSignal from the lazy decay on: boost, cap, database.UpsertSignal
BoostUpsert(b, dbOK) ==
    /\ booster[b].pc = "upsert"
    /\ LET call == booster[b]
           newWeight == BoostedWeight(call.existing, call.signalType, sclock.day)
       IN  IF dbOK
           THEN /\ signals' = UpsertSignal(signals, call.key, call.signalType, newWeight,
                                           sclock.day)
                /\ boosted' = [boosted EXCEPT ![call.key] = @ + 1]
           ELSE UNCHANGED <<signals, boosted>>
    /\ booster' = [booster EXCEPT ![b] = IdleBooster]
    /\ UNCHANGED <<sinit, sclock, nboost, sdecay>>
    /\ UNCHANGED <<pendingVars, narratorVars, prun, dailyVars, asyncVars, lateVars>>

\* DecayAllSignals: what the loop does with one row at time t
DecayRow(s, t) ==
    IF t - s.LastUpdated <= 0 THEN "continue"
    ELSE IF DecayWeight(s.Weight, t - s.LastUpdated, s.Type, s.EverDominant)
                < Scale \div 1000
            /\ ~(s.Type = "project" /\ s.EverDominant)
         THEN "DeleteSignal"
         ELSE "UpdateSignalWeight"

\* the signal-decay job, once a day: the rows in done are handled before
\* the store fails, all of them if it does not fail
DecayAllSignals(getOK, done) ==
    /\ sdecay.n < MaxDecays
    /\ sdecay.n = 0 \/ sclock.day > sdecay.at
    /\ done \subseteq DOMAIN signals
    /\ ~getOK => done = {}
    /\ (getOK /\ done # DOMAIN signals) =>
            \E k \in DOMAIN signals \ done : DecayRow(signals[k], sclock.day) # "continue"
    /\ signals' =
          [k \in {j \in DOMAIN signals :
                    ~(j \in done /\ DecayRow(signals[j], sclock.day) = "DeleteSignal")} |->
              IF k \in done /\ DecayRow(signals[k], sclock.day) = "UpdateSignalWeight"
              THEN [signals[k] EXCEPT
                      !.Weight = DecayWeight(signals[k].Weight,
                                             sclock.day - signals[k].LastUpdated,
                                             signals[k].Type, signals[k].EverDominant),
                      !.LastUpdated = sclock.day]
              ELSE signals[k]]
    /\ sdecay' = [n |-> sdecay.n + 1, at |-> sclock.day,
                  err |-> ~getOK \/ done # DOMAIN signals]
    /\ UNCHANGED <<sinit, sclock, booster, boosted, nboost>>
    /\ UNCHANGED <<pendingVars, narratorVars, prun, dailyVars, asyncVars, lateVars>>

\* db.MarkDominant on a stored project signal
MarkDominant(key) ==
    /\ key \in DOMAIN signals
    /\ signals[key].Type = "project"
    /\ ~signals[key].EverDominant
    /\ signals' = [signals EXCEPT ![key].EverDominant = TRUE]
    /\ UNCHANGED <<sinit, sclock, booster, boosted, nboost, sdecay>>
    /\ UNCHANGED <<pendingVars, narratorVars, prun, dailyVars, asyncVars, lateVars>>

\* days pass
SignalTick(step) ==
    /\ sclock.ticks < MaxSignalTicks
    /\ sclock' = [day |-> sclock.day + step, ticks |-> sclock.ticks + 1]
    /\ UNCHANGED <<signals, sinit, booster, boosted, nboost, sdecay>>
    /\ UNCHANGED <<pendingVars, narratorVars, prun, dailyVars, asyncVars, lateVars>>

\* asynchronous boosts against the daily decay job
NextSignals ==
    \/ \E b \in Boosters, c \in BoostCalls, dbOK \in BOOLEAN : BoostGet(b, c[1], c[2], dbOK)
    \/ \E b \in Boosters, dbOK \in BOOLEAN : BoostUpsert(b, dbOK)
    \/ \E getOK \in BOOLEAN, done \in SUBSET SignalKeys : DecayAllSignals(getOK, done)
    \/ \E key \in SignalKeys : MarkDominant(key)
    \/ \E step \in DaySteps : SignalTick(step)

(***************************************************************************)
(* The goroutines of the request path: boostSignals, narrateJournal,       *)
(* expandIdea. What they do to table signals and to the journal is the     *)
(* signal layer and the narrator above; here they end and log              *)
(***************************************************************************)
\* boostSignals has no deadline; the other two run under a 2-minute context
AsyncOutcomes(kind) ==
    IF kind = "boostSignals" THEN {"ok", "error"} ELSE {"ok", "error", "timeout"}

\* a goroutine whose failure is written into the reply of its request
AsyncEnd_IntoReply(task, outcome) ==
    /\ task \in async
    /\ async' = async \ {task}
    /\ asyncLog' = asyncLog \cup {[task |-> task, outcome |-> outcome]}
    /\ IF outcome = "ok" THEN UNCHANGED <<lastCapture, lastClarify>>
       ELSE /\ lastCapture' = [lastCapture EXCEPT !.http = 500]
            /\ lastClarify' = [lastClarify EXCEPT !.http = 500]
    /\ UNCHANGED <<now, pending, capture_log, vaultLog, notes, ncap, dbLogCall, cpc, creq,
                   epc, enow, eselected, eupdated, etodo>>
    /\ UNCHANGED <<narratorVars, prun, dailyVars, signalVars, lateVars>>

\* a goroutine returns: an error or a timeout is logged and dropped
AsyncEnd(task, outcome) ==
    /\ task \in async
    /\ async' = async \ {task}
    /\ asyncLog' = asyncLog \cup {[task |-> task, outcome |-> outcome]}
    /\ UNCHANGED <<pendingVars, narratorVars, prun, dailyVars, signalVars, lateVars>>

\* the request path with its goroutines
NextAsync ==
    \/ CaptureAny
    \/ CaptureForReview
    \/ Clarify({1}, {TRUE})
    \/ \E task \in async : \E outcome \in AsyncOutcomes(task.kind) : AsyncEnd(task, outcome)


(***************************************************************************)
(* vault.WriteFileAtomic                                                   *)
(***************************************************************************)
\* file contents are sequences of blocks; a write that fails may have put
\* any prefix of its blocks into the file
Contents == {<<"a1", "a2">>, <<"b1", "b2">>}

IdleWriter ==
    [pc |-> "idle", content |-> <<>>, old |-> NULL, attempt |-> 0, tmpPath |-> 0,
     created |-> {}, result |-> ""]

AtomicFrame ==
    UNCHANGED <<pendingVars, narratorVars, prun, dailyVars, signalVars, asyncVars,
                purchaseVars, llmVars, letterVars, concVars, noteVars, tailVars>>

\* the deferred clean-up left out: the temp file stays
removeTemp_Keep(tmps, tmpPath) == tmps

\* the deferred os.Remove(tmpPath) of a failed attempt
removeTemp(tmps, tmpPath) ==
    [name \in DOMAIN tmps \ {tmpPath} |-> tmps[name]]

\* WriteFileAtomic(path, content) is called
WriteFileAtomic(content) ==
    /\ aw.pc \in {"idle", "done", "crashed"}
    /\ anum.calls < MaxAtomicCalls
    /\ anum' = [anum EXCEPT !.calls = @ + 1]
    /\ aw' = [IdleWriter EXCEPT !.pc = "mkdir", !.content = content, !.old = afile]
    /\ UNCHANGED <<afile, atmps>>
    /\ AtomicFrame

\* writeFileAtomicOnce returned an error: the loop goes on or gives up
AttemptFailed(w) ==
    IF w.attempt + 1 < MaxAttempts
    THEN [w EXCEPT !.pc = "sleep", !.attempt = @ + 1]
    ELSE [w EXCEPT !.pc = "done", !.attempt = @ + 1, !.result = "after 3 attempts"]

\* time.Sleep between attempts
AtomicSleep ==
    /\ aw.pc = "sleep"
    /\ aw' = [aw EXCEPT !.pc = "mkdir"]
    /\ UNCHANGED <<afile, atmps, anum>>
    /\ AtomicFrame

\* os.MkdirAll and os.CreateTemp: no temp file exists if either fails
AtomicCreateTemp(mkdirOK, createOK) ==
    /\ aw.pc = "mkdir"
    /\ IF mkdirOK /\ createOK
       THEN /\ anum' = [anum EXCEPT !.temps = @ + 1]
            /\ atmps' = atmps @@ (anum'.temps :> <<>>)
            /\ aw' = [aw EXCEPT !.pc = "write", !.tmpPath = anum'.temps,
                                !.created = @ \cup {anum'.temps}]
       ELSE /\ aw' = AttemptFailed(aw)
            /\ UNCHANGED <<atmps, anum>>
    /\ UNCHANGED afile
    /\ AtomicFrame

\* tmp.Write(content): all blocks, or an error after the first n of them
AtomicWrite(n) ==
    /\ aw.pc = "write"
    /\ IF n = Len(aw.content)
       THEN /\ atmps' = [atmps EXCEPT ![aw.tmpPath] = aw.content]
            /\ aw' = [aw EXCEPT !.pc = "sync"]
       ELSE /\ atmps' = removeTemp([atmps EXCEPT ![aw.tmpPath] = SubSeq(aw.content, 1, n)],
                                   aw.tmpPath)
            /\ aw' = AttemptFailed(aw)
    /\ UNCHANGED <<afile, anum>>
    /\ AtomicFrame

\* tmp.Sync() and tmp.Close()
AtomicSyncClose(syncOK, closeOK) ==
    /\ aw.pc = "sync"
    /\ IF syncOK /\ closeOK
       THEN /\ aw' = [aw EXCEPT !.pc = "rename"]
            /\ atmps' = atmps
       ELSE /\ aw' = AttemptFailed(aw)
            /\ atmps' = removeTemp(atmps, aw.tmpPath)
    /\ UNCHANGED <<afile, anum>>
    /\ AtomicFrame

\* os.Rename(tmpPath, path): the target takes the temp file's content in one
\* step, or stays as it is
AtomicRename(ok) ==
    /\ aw.pc = "rename"
    /\ IF ok
       THEN /\ afile' = Some(atmps[aw.tmpPath])
            /\ atmps' = [name \in DOMAIN atmps \ {aw.tmpPath} |-> atmps[name]]
            /\ aw' = [aw EXCEPT !.pc = "done", !.attempt = @ + 1, !.result = "nil"]
       ELSE /\ afile' = afile
            /\ atmps' = removeTemp(atmps, aw.tmpPath)
            /\ aw' = AttemptFailed(aw)
    /\ UNCHANGED anum
    /\ AtomicFrame

\* the process dies inside the call: files stay as they are
AtomicCrash ==
    /\ aw.pc \notin {"idle", "done", "crashed"}
    /\ aw' = [aw EXCEPT !.pc = "crashed"]
    /\ UNCHANGED <<afile, atmps, anum>>
    /\ AtomicFrame

NextAtomic ==
    \/ \E content \in Contents : WriteFileAtomic(content)
    \/ AtomicSleep
    \/ \E mkdirOK, createOK \in BOOLEAN : AtomicCreateTemp(mkdirOK, createOK)
    \/ \E n \in 0..MaxBlocks : n <= Len(aw.content) /\ AtomicWrite(n)
    \/ \E syncOK, closeOK \in BOOLEAN : AtomicSyncClose(syncOK, closeOK)
    \/ \E ok \in BOOLEAN : AtomicRename(ok)
    \/ AtomicCrash

(***************************************************************************)
(* Letters: the scheduler's jobs, Vault.WriteLetter, GET /letters          *)
(***************************************************************************)
\* a letter text is a sequence of pieces; the lengths are those of the
\* pieces as strings
LetterTypes == {"daily", "weekly"}
ActorList == <<"wolf", "wife">>
LetterTexts ==
    {<<"You walked far today.">>,
     <<"Hello,", "You walked far today.">>,
     <<"Hello,", "Mind the budget.", "\n\nSincerely,">>}
PieceLength ==
    [piece \in {"You walked far today.", "Hello,", "\n\nSincerely,", "Mind the budget."} |->
        CASE piece = "You walked far today." -> 21
          [] piece = "Hello," -> 6
          [] piece = "\n\nSincerely," -> 12
          [] piece = "Mind the budget." -> 16]

RECURSIVE TextLength(_)
TextLength(text) ==
    IF text = <<>> THEN 0 ELSE PieceLength[Head(text)] + TextLength(Tail(text))

ForbiddenPieces == {"Mind the budget."}
GreetingPieces == {"Hello,"}
SignoffPieces == {"\n\nSincerely,"}

\* ValidateLetter: forbidden terms and a text under 10 characters are
\* errors; a greeting is a warning and leaves Valid as it is
ValidateLetter(text) ==
    [Valid |-> /\ \A i \in DOMAIN text : text[i] \notin ForbiddenPieces
               /\ TextLength(text) >= 10,
     Warnings |-> IF text # <<>> /\ text[1] \in GreetingPieces
                  THEN {"letter starts with greeting"} ELSE {}]

\* SanitizeLetter: one greeting prefix and one signoff suffix are cut
SanitizeLetter(text) ==
    LET body == IF text # <<>> /\ text[1] \in GreetingPieces THEN Tail(text) ELSE text
    IN  IF body # <<>> /\ body[Len(body)] \in SignoffPieces
        THEN SubSeq(body, 1, Len(body) - 1) ELSE body

\* generate*LetterForActor: the content handed to WriteLetter
LetterContent(content) ==
    IF ~ValidateLetter(content).Valid THEN SanitizeLetter(content) ELSE content

\* now.Format("2006-01-02") and the ISO week of a day; day 0 is a Sunday
ForDate(type, day) ==
    IF type = "daily" THEN <<"day", day>> ELSE <<"W", (day + 6) \div 7>>

\* "let_" + for_date + "_" + actor + "_" + type
LetterID(forDate, actor, type) == <<"let", forDate, actor, type>>

\* filepath.Join("Letters", subdir, for_date + ".md")
LetterPath(type, forDate) == <<"Letters", type, forDate>>

\* buildLetterContent: frontmatter, a blank line, the content, a newline
buildLetterContent(letter) ==
    <<"---", letter.ID, letter.Type, letter.ForDate, letter.Actor, "---", "\n">>
    \o letter.Content \o <<"\n">>

\* extractLetterBody: what follows the second ---, leading newlines skipped
RECURSIVE SkipNewlines(_)
SkipNewlines(body) ==
    IF body # <<>> /\ Head(body) = "\n" THEN SkipNewlines(Tail(body)) ELSE body

extractLetterBody(content) ==
    IF content = <<>> \/ content[1] # "---" THEN content
    ELSE LET closing == {i \in 2..Len(content) : content[i] = "---"}
         IN  IF closing = {} THEN content
             ELSE LET i == CHOOSE k \in closing : \A j \in closing : k <= j
                  IN  SkipNewlines(SubSeq(content, i + 1, Len(content)))

LettersFrame ==
    UNCHANGED <<pendingVars, narratorVars, prun, dailyVars, signalVars, asyncVars,
                purchaseVars, llmVars, atomicVars, concVars, noteVars,
                tailVars>>

\* the gocron job fires: generateDailyLetters each day, generateWeeklyLetters
\* on Sundays, at most once a day
generateLetters(type) ==
    /\ ljob[type].left = <<>>
    /\ ljob[type].day < lday
    /\ type = "weekly" => lday % 7 = 0
    /\ ljob' = [ljob EXCEPT ![type] = [day |-> lday, left |-> ActorList]]
    /\ UNCHANGED <<lday, letterFiles, letterRows, generated, lastLetters>>
    /\ LettersFrame

\* generateDailyLetterForActor / generateWeeklyLetterForActor for the next
\* actor of the loop: generate, validate, write to the vault, record
generateLetterForActor(type, text, genOK, writeOK, saveOK) ==
    /\ ljob[type].left # <<>>
    /\ ljob' = [ljob EXCEPT ![type].left = Tail(@)]
    /\ LET actor == Head(ljob[type].left)
           forDate == ForDate(type, ljob[type].day)
           letterID == LetterID(forDate, actor, type)
           path == LetterPath(type, forDate)
           letter == [ID |-> letterID, Type |-> type, ForDate |-> forDate,
                      Actor |-> actor, Content |-> LetterContent(text)]
           file == buildLetterContent(letter)
       IN  IF ~genOK \/ ~writeOK
           THEN UNCHANGED <<letterFiles, letterRows, generated>>
           ELSE /\ generated' = [f \in DOMAIN generated \cup {path} |->
                                    IF f = path THEN text ELSE generated[f]]
                /\ letterFiles' = [f \in DOMAIN letterFiles \cup {path} |->
                                      IF f = path THEN file ELSE letterFiles[f]]
                /\ IF saveOK /\ letterID \notin DOMAIN letterRows
                   THEN letterRows' = letterRows @@
                            (letterID :> [letter_id |-> letterID, type |-> type,
                                          for_date |-> forDate, actor |-> actor,
                                          file_path |-> path])
                   ELSE letterRows' = letterRows
    /\ UNCHANGED <<lday, lastLetters>>
    /\ LettersFrame

\* GetLetters: WHERE letter_id LIKE '%_<actor>_%' AND type = ?
GetLetters(rows, actor, type) ==
    {id \in DOMAIN rows : rows[id].actor = actor /\ (type = "all" \/ rows[id].type = type)}

\* ReadLetter(type, for_date): the file of that type and date, "" if missing
ReadLetter(files, type, forDate) ==
    IF LetterPath(type, forDate) \in DOMAIN files
    THEN files[LetterPath(type, forDate)] ELSE <<>>

\* the id: line of a letter file's frontmatter
FileID(file) == IF Len(file) < 2 THEN <<>> ELSE file[2]

\* GET /letters
Letters(actor, type, dbOK) ==
    /\ lastLetters' =
          IF ~dbOK THEN [actor |-> actor, letters |-> {}]
          ELSE [actor |-> actor,
                letters |-> {[LetterID |-> id,
                              Text |-> extractLetterBody(
                                          ReadLetter(letterFiles, letterRows[id].type,
                                                     letterRows[id].for_date)),
                              File |-> FileID(ReadLetter(letterFiles, letterRows[id].type,
                                                         letterRows[id].for_date))] :
                                id \in GetLetters(letterRows, actor, type)}]
    /\ UNCHANGED <<lday, ljob, letterFiles, letterRows, generated>>
    /\ LettersFrame

\* the next day
LetterDay ==
    /\ lday < MaxLetterDays
    /\ lday' = lday + 1
    /\ UNCHANGED <<ljob, letterFiles, letterRows, generated, lastLetters>>
    /\ LettersFrame

NextLetters ==
    \/ \E type \in LetterTypes : generateLetters(type)
    \/ \E type \in LetterTypes, text \in LetterTexts, genOK, writeOK, saveOK \in BOOLEAN :
          generateLetterForActor(type, text, genOK, writeOK, saveOK)
    \/ \E actor \in Actors, type \in LetterTypes \cup {"all"}, dbOK \in BOOLEAN :
          Letters(actor, type, dbOK)
    \/ LetterDay

(***************************************************************************)
(* Update() in concurrent goroutines: narrateJournal triggers, the manual  *)
(* endpoint, the nightly job.  Narrator holds no lock.                     *)
(***************************************************************************)
Updaters == 1..MaxUpdaters
Days == 0..((MaxInstant + MaxOffset) \div DayLen)

IdleUpdater ==
    [pc |-> "idle", runs |-> 0, state |-> ZeroState, queue |-> <<>>, cur |-> NULL,
     read |-> <<>>]

ConcFrame ==
    UNCHANGED <<pendingVars, prun, dailyVars, signalVars, asyncVars, purchaseVars, llmVars,
                atomicVars, letterVars, noteVars, tailVars, nupd, upc, ustate, uqueue, ucur, lastEnd,
                uresult>>

\* Journal/Daily/<date>.md: the batches in it, in order
DailyFile(date) == SelectSeq(daily, LAMBDA b : b.date = date)

\* the daily files with the file of one date replaced
WithDailyFile(date, content) == SelectSeq(daily, LAMBDA b : b.date # date) \o content

\* the batch in hand of p as it goes into the daily file
BatchInHand(p) ==
    [date |-> Head(cu[p].queue).date, files |-> Filenames(Head(cu[p].queue).entries),
     final |-> cu[p].cur[1].final, mapping |-> "none"]

\* processBatch returned an error: Update continues with the next batch
BatchFailed(w) ==
    [w EXCEPT !.queue = Tail(@), !.cur = NULL, !.read = <<>>,
              !.pc = IF Len(w.queue) > 1 THEN "batch" ELSE "save"]

\* Update: LoadState, ScanUnprocessed, grouping into batches
ConcUpdateStart(p) ==
    /\ cu[p].pc = "idle"
    /\ cu[p].runs < MaxRunsEach
    /\ \E entries \in ScanUnprocessed(rawFiles, stateFile.LastProcessedTS) :
          cu' = [cu EXCEPT ![p] =
                    IF Len(entries) = 0 THEN [@ EXCEPT !.runs = @ + 1]
                    ELSE [@ EXCEPT !.runs = @ + 1, !.pc = "batch", !.state = stateFile,
                                   !.queue = UpdateBatches(entries, GetUniqueDates(entries))]]
    /\ UNCHANGED <<rawFiles, stateFile, daily, mapLog, cappended, ctmp, cstmp>>
    /\ ConcFrame

\* processBatch: pipeline.Process, then fileExists of AppendToDaily
ConcPipeline(p) ==
    /\ cu[p].pc = "batch"
    /\ \E result \in PipelineOutcomes(Head(cu[p].queue).entries) :
          cu' = [cu EXCEPT ![p] =
                    IF result.err THEN BatchFailed(@)
                    ELSE [@ EXCEPT !.cur = Some(result),
                                   !.pc = IF DailyFile(Head(cu[p].queue).date) = <<>>
                                          THEN "create" ELSE "read"]]
    /\ UNCHANGED <<rawFiles, stateFile, daily, mapLog, cappended, ctmp, cstmp>>
    /\ ConcFrame

\* createDailyFile: os.Create truncates whatever is at the path
ConcCreate(p) ==
    /\ cu[p].pc = "create"
    /\ daily' = WithDailyFile(Head(cu[p].queue).date, <<BatchInHand(p)>>)
    /\ cappended' = cappended \cup {[by |-> p, batch |-> BatchInHand(p)]}
    /\ cu' = [cu EXCEPT ![p].pc = "map"]
    /\ UNCHANGED <<rawFiles, stateFile, mapLog, ctmp, cstmp>>
    /\ ConcFrame

\* appendToDailyFile: os.ReadFile
ConcRead(p) ==
    /\ cu[p].pc = "read"
    /\ cu' = [cu EXCEPT ![p].read = DailyFile(Head(cu[p].queue).date), ![p].pc = "write"]
    /\ UNCHANGED <<rawFiles, stateFile, daily, mapLog, cappended, ctmp, cstmp>>
    /\ ConcFrame

\* appendToDailyFile: os.WriteFile(filePath + ".tmp")
ConcWriteTemp(p) ==
    /\ cu[p].pc = "write"
    /\ ctmp' = [ctmp EXCEPT ![Head(cu[p].queue).date] =
                   Some(Append(cu[p].read, BatchInHand(p)))]
    /\ cu' = [cu EXCEPT ![p].pc = "rename"]
    /\ UNCHANGED <<rawFiles, stateFile, daily, mapLog, cappended, cstmp>>
    /\ ConcFrame

\* appendToDailyFile: os.Rename, which fails when the temp file is gone
ConcRename(p) ==
    /\ cu[p].pc = "rename"
    /\ LET date == Head(cu[p].queue).date
       IN  IF ctmp[date] = NULL
           THEN /\ cu' = [cu EXCEPT ![p] = BatchFailed(@)]
                /\ UNCHANGED <<daily, ctmp, cappended>>
           ELSE /\ daily' = WithDailyFile(date, ctmp[date][1])
                /\ ctmp' = [ctmp EXCEPT ![date] = NULL]
                /\ cappended' = cappended \cup {[by |-> p, batch |-> BatchInHand(p)]}
                /\ cu' = [cu EXCEPT ![p].pc = "map"]
    /\ UNCHANGED <<rawFiles, stateFile, mapLog, cstmp>>
    /\ ConcFrame

\* processBatch: AppendMapping, then the caller's state moves to the last
\* entry of the batch
ConcAppendMapping(p, ok) ==
    /\ cu[p].pc = "map"
    /\ LET batch == Head(cu[p].queue)
           lastEntry == batch.entries[Len(batch.entries)]
       IN  /\ mapLog' = IF ok
                        THEN Append(mapLog, [line |-> NarrationMapping(batch.date, cu[p].cur[1]),
                                             batch |-> 0])
                        ELSE mapLog
           /\ cu' = [cu EXCEPT ![p] =
                        [@ EXCEPT !.state = [LastProcessedRaw |-> lastEntry.name,
                                             LastProcessedTS |-> lastEntry.created,
                                             CurrentDay |-> batch.date],
                                  !.queue = Tail(@), !.cur = NULL, !.read = <<>>,
                                  !.pc = IF Len(cu[p].queue) > 1 THEN "batch" ELSE "save"]]
    /\ UNCHANGED <<rawFiles, stateFile, daily, cappended, ctmp, cstmp>>
    /\ ConcFrame

\* SaveState: os.WriteFile(statePath + ".tmp")
ConcSaveWrite(p) ==
    /\ cu[p].pc = "save"
    /\ cstmp' = Some(cu[p].state)
    /\ cu' = [cu EXCEPT ![p].pc = "saverename"]
    /\ UNCHANGED <<rawFiles, stateFile, daily, mapLog, cappended, ctmp>>
    /\ ConcFrame

\* SaveState: os.Rename, and Update returns
ConcSaveRename(p) ==
    /\ cu[p].pc = "saverename"
    /\ IF cstmp = NULL
       THEN UNCHANGED <<stateFile, cstmp>>
       ELSE /\ stateFile' = cstmp[1]
            /\ cstmp' = NULL
    /\ cu' = [cu EXCEPT ![p] = [IdleUpdater EXCEPT !.runs = cu[p].runs]]
    /\ UNCHANGED <<rawFiles, daily, mapLog, cappended, ctmp>>
    /\ ConcFrame

\* a Journal capture is filed while the goroutines run
ConcAddRaw ==
    /\ Cardinality(rawFiles) < MaxSharedRaw
    /\ \E created \in Instants, offset \in Offsets :
          rawFiles' = rawFiles \cup {RawFile(Cardinality(rawFiles) + 1, created, offset)}
    /\ UNCHANGED <<stateFile, daily, mapLog, concVars>>
    /\ ConcFrame

NextConcurrentUpdate ==
    \/ ConcAddRaw
    \/ \E p \in Updaters :
          \/ ConcUpdateStart(p)
          \/ ConcPipeline(p)
          \/ ConcCreate(p)
          \/ ConcRead(p)
          \/ ConcWriteTemp(p)
          \/ ConcRename(p)
          \/ \E ok \in BOOLEAN : ConcAppendMapping(p, ok)
          \/ ConcSaveWrite(p)
          \/ ConcSaveRename(p)

(***************************************************************************)
(* Vault.WriteNote and Vault.WriteRawJournalCapture: where a note goes     *)
(***************************************************************************)
\* titles are sequences of characters
Titles ==
    {<<"H", "i">>, <<"h", "i", "!">>, <<"h", " ", "i">>, <<"h", "_", "_", "i">>, <<"?">>}
Lowered == [c \in {"H"} |-> "h"]
SlugCharacters == {"h", "i", "-"}
SlugLimit == 50

MapSeq(s, Op(_)) == [i \in DOMAIN s |-> Op(s[i])]
ToLower(c) == IF c \in DOMAIN Lowered THEN Lowered[c] ELSE c
Hyphenated(c) == IF c \in {" ", "_"} THEN "-" ELSE c

\* regexp -+ replaced by one hyphen
RECURSIVE SqueezeHyphens(_)
SqueezeHyphens(s) ==
    IF Len(s) < 2 THEN s
    ELSE IF s[1] = "-" /\ s[2] = "-" THEN SqueezeHyphens(Tail(s))
    ELSE <<s[1]>> \o SqueezeHyphens(Tail(s))

RECURSIVE TrimHyphensLeft(_)
TrimHyphensLeft(s) ==
    IF s # <<>> /\ Head(s) = "-" THEN TrimHyphensLeft(Tail(s)) ELSE s

RECURSIVE TrimHyphensRight(_)
TrimHyphensRight(s) ==
    IF s # <<>> /\ s[Len(s)] = "-" THEN TrimHyphensRight(SubSeq(s, 1, Len(s) - 1)) ELSE s

\* slugify: lower case, hyphens for spaces and underscores, other characters
\* dropped, runs of hyphens squeezed, hyphens trimmed, 50 characters at most,
\* "note" when nothing is left
slugify(title) ==
    LET lower == MapSeq(title, ToLower)
        hyphens == MapSeq(lower, Hyphenated)
        kept == SelectSeq(hyphens, LAMBDA c : c \in SlugCharacters)
        trimmed == TrimHyphensRight(TrimHyphensLeft(SqueezeHyphens(kept)))
        limited == IF Len(trimmed) > SlugLimit
                   THEN TrimHyphensRight(SubSeq(trimmed, 1, SlugLimit)) ELSE trimmed
    IN  IF limited = <<>> THEN <<"n", "o", "t", "e">> ELSE limited

\* note.Created: the date and the time of day it formats to
CreatedAt == [date : 1..2, time : 1..2]

\* WriteNote: <Category>/<date>-<slug>.md
NotePath(note) == <<note.Category, note.Created.date, slugify(note.Title)>>

\* WriteRawJournalCapture: Journal/Raw/<date>_<time>_<id>.md
RawJournalPath(note) == <<"Journal/Raw", note.Created.date, note.Created.time, note.ID>>

\* Capture with a confident classification and Clarify after ResolvePending:
\* the note is built and written, Journal to Raw, anything else with
\* WriteNote; WriteFileAtomic replaces whatever is at the path
FileNote(id, category, created, title, writeOK) ==
    /\ id \notin {n.ID : n \in nfiled}
    /\ LET note == [ID |-> id, Created |-> created, Category |-> category, Title |-> title]
           path == IF category = CategoryJournal THEN RawJournalPath(note)
                   ELSE NotePath(note)
       IN  IF writeOK
           THEN /\ noteFiles' = [f \in DOMAIN noteFiles \cup {path} |->
                                    IF f = path THEN note ELSE noteFiles[f]]
                /\ nfiled' = nfiled \cup {note}
           ELSE UNCHANGED <<noteFiles, nfiled>>
    /\ UNCHANGED <<pendingVars, narratorVars, prun, dailyVars, signalVars, asyncVars,
                   purchaseVars, llmVars, atomicVars, letterVars, concVars, tailVars>>

NextNotes ==
    \E id \in 1..MaxNotes, category \in Destinations, created \in CreatedAt,
       title \in Titles, writeOK \in BOOLEAN :
        FileNote(id, category, created, title, writeOK)

(***************************************************************************)
(* Theme and action selector: DetectThemes, SelectTheme, SelectDailyAction *)
(***************************************************************************)
Terms == {"sleep", "run"}
TermCountValues == {0, 3, MaxTermCount}
PendingCounts == {0, 1, MaxPendingCount}

\* evidence.CategoryCounts: a category is a key once a capture was routed to it
CategoryCountMaps ==
    { [c \in {} |-> 0],
      [c \in {CategoryHealth} |-> 3],
      [c \in {CategoryProjects} |-> 2],
      [c \in {CategoryHealth, CategoryProjects} |-> 3],
      [c \in {CategoryIdeas, CategoryHealth, CategoryLife, CategoryProjects} |-> 1],
      [c \in {CategoryIdeas, CategoryHealth, CategoryLife, CategoryProjects} |->
            IF c = CategoryHealth THEN 3 ELSE 1] }

ProjectActivities ==
    { <<>>,
      << [Name |-> "brain", HasNextAction |-> FALSE, NextAction |-> ""] >>,
      << [Name |-> "brain", HasNextAction |-> TRUE, NextAction |-> ""],
         [Name |-> "garden", HasNextAction |-> TRUE, NextAction |-> "order seeds"] >> }

WindowEvidences ==
    [TermCounts : [Terms -> TermCountValues], CategoryCounts : CategoryCountMaps,
     ProjectActivity : ProjectActivities, PendingCount : PendingCounts]

\* the orders in which a range over the map TermCounts can yield its keys
TermOrders ==
    {order \in [1..Cardinality(Terms) -> Terms] :
        \A i, j \in 1..Cardinality(Terms) : i # j => order[i] # order[j]}

SourceTypes == {"friction", "stalled", "project_focus", "health_focus", "scattered",
                "term_repeat"}

MinThemeEvidence == 2

Candidate(name, evidence_, sourceType) ==
    [Name |-> name, Evidence |-> evidence_, SourceType |-> sourceType]

SumCounts(counts) ==
    LET RECURSIVE Sum(_)
        Sum(keys) == IF keys = {} THEN 0
                     ELSE LET k == CHOOSE k \in keys : TRUE
                          IN  counts[k] + Sum(keys \ {k})
    IN  Sum(DOMAIN counts)

MaxCount(counts) ==
    IF DOMAIN counts = {} THEN 0
    ELSE CHOOSE m \in {counts[k] : k \in DOMAIN counts} : \A k \in DOMAIN counts : counts[k] <= m

\* sort.Slice by Evidence descending; for the few candidates there are it is
\* an insertion sort, which keeps the order of equal elements
RECURSIVE ByEvidence(_, _)
ByEvidence(candidates, e) ==
    IF e < 0 THEN <<>>
    ELSE SelectSeq(candidates, LAMBDA c : c.Evidence = e) \o ByEvidence(candidates, e - 1)

SortByEvidence(candidates) ==
    ByEvidence(candidates,
               MaxCount([i \in DOMAIN candidates |-> candidates[i].Evidence]))

\* DetectThemes, the range over evidence.TermCounts yielding the keys in termOrder
DetectThemes(ev, termOrder) ==
    LET repeated == SelectSeq(termOrder, LAMBDA term : ev.TermCounts[term] >= 3)
        rule1 == [i \in DOMAIN repeated |->
                    Candidate(<<repeated[i], "_focus">>, ev.TermCounts[repeated[i]],
                              "term_repeat")]
        rule2 == IF ev.PendingCount > 3
                 THEN << Candidate(<<"definition_friction">>, ev.PendingCount, "friction") >>
                 ELSE <<>>
        counts == ev.CategoryCounts
        rule3 == IF CategoryHealth \in DOMAIN counts /\ counts[CategoryHealth] >= 3
                 THEN << Candidate(<<"health_focus">>, counts[CategoryHealth],
                                   "health_focus") >>
                 ELSE <<>>
        rule4 == IF CategoryProjects \in DOMAIN counts /\ counts[CategoryProjects] >= 2
                 THEN << Candidate(<<"project_progress">>, counts[CategoryProjects],
                                   "project_focus") >>
                 ELSE <<>>
        categoryCount == Cardinality(DOMAIN counts)
        \* float64(maxCount)/float64(total) < 0.4
        rule5 == IF /\ categoryCount >= 4
                    /\ SumCounts(counts) > 0
                    /\ 5 * MaxCount(counts) < 2 * SumCounts(counts)
                 THEN << Candidate(<<"scattered_attention">>, categoryCount, "scattered") >>
                 ELSE <<>>
    IN  SortByEvidence(rule1 \o rule2 \o rule3 \o rule4 \o rule5)

actionablePriority_Flat(sourceType) == 0

\* a source type that is no key of the map gives the zero value
actionablePriority(sourceType) ==
    CASE sourceType = "friction" -> 3
      [] sourceType = "stalled" -> 2
      [] sourceType \in {"project_focus", "health_focus", "scattered"} -> 1
      [] OTHER -> 0

\* SelectTheme: the loop over candidates[1:]
RECURSIVE BestOfTies(_, _, _)
BestOfTies(candidates, best, i) ==
    IF i > Len(candidates) THEN best
    ELSE IF candidates[i].Evidence < best.Evidence THEN best
    ELSE BestOfTies(candidates,
                    IF actionablePriority(candidates[i].SourceType)
                           > actionablePriority(best.SourceType)
                    THEN candidates[i] ELSE best,
                    i + 1)

\* nil is NULL, a theme is Some(candidate)
SelectTheme(candidates) ==
    IF Len(candidates) = 0 THEN NULL
    ELSE IF candidates[1].Evidence < MinThemeEvidence THEN NULL
    ELSE Some(BestOfTies(candidates, candidates[1], 2))

\* the keys of the map Countermoves and their texts
Countermoves ==
    [key \in {"scattered_attention", "definition_friction", "health_focus",
              "project_progress", "term_repeat", "high_volume", "low_volume",
              "projects_dominant", "health_dominant", "life_dominant", "ideas_dominant",
              "default"} |-> <<"countermove for", key>>]

SelectDailyAction(p) ==
    LET withNext == SelectSeq(p.ProjectActivity,
                              LAMBDA pa : pa.HasNextAction /\ pa.NextAction # "")
    IN  IF withNext # <<>>
        THEN Some([Text |-> <<withNext[1].NextAction>>, Source |-> "project_next",
                   ProjectRef |-> withNext[1].Name])
        ELSE IF p.PendingCount > 0
        THEN Some([Text |-> <<"You have pending clarifications to review">>,
                   Source |-> "pending_clarify", ProjectRef |-> ""])
        ELSE IF p.SelectedTheme # NULL
                /\ p.SelectedTheme[1].SourceType \in DOMAIN Countermoves
        THEN Some([Text |-> Countermoves[p.SelectedTheme[1].SourceType],
                   Source |-> "countermove", ProjectRef |-> ""])
        ELSE NULL

SelFrame == UNCHANGED <<settledVars, shapeVars, appendVars, shutVars>>

\* BuildDayProfile: on some window evidence first, on the same evidence again
\* afterwards (the letter job of the next actor or of the next call)
BuildDayProfile(ev, termOrder) ==
    /\ \/ profile = NULL
       \/ profile # NULL /\ profile[1].applied /\ evidence = Some(ev)
    /\ evidence' = Some(ev)
    /\ profile' = Some([ProjectActivity |-> ev.ProjectActivity,
                        PendingCount |-> ev.PendingCount,
                        ThemeCandidates |-> DetectThemes(ev, termOrder),
                        SelectedTheme |-> NULL, BestNextAction |-> NULL,
                        applied |-> FALSE])
    /\ themesSeen' = IF evidence = Some(ev) THEN themesSeen ELSE {}
    /\ SelFrame

\* a profile whose candidates are given, sorted by evidence as DetectThemes
\* leaves them
CandidateLists ==
    LET all == [Name : {<<"theme">>}, Evidence : 1..MaxEvidence, SourceType : SourceTypes]
    IN  {cs \in UNION {[1..n -> all] : n \in 0..MaxCandidates} :
            \A i \in 1..(Len(cs) - 1) : cs[i].Evidence >= cs[i + 1].Evidence}

GivenProfile(candidates) ==
    /\ profile = NULL
    /\ evidence' = NULL
    /\ profile' = Some([ProjectActivity |-> <<>>, PendingCount |-> 0,
                        ThemeCandidates |-> candidates,
                        SelectedTheme |-> NULL, BestNextAction |-> NULL,
                        applied |-> FALSE])
    /\ themesSeen' = {}
    /\ SelFrame

\* ApplyThemeSelection: SelectTheme, then SelectDailyAction
ApplyThemeSelection ==
    /\ profile # NULL
    /\ ~profile[1].applied
    /\ LET theme == SelectTheme(profile[1].ThemeCandidates)
           selected == [profile[1] EXCEPT !.SelectedTheme = theme]
       IN  /\ profile' = Some([selected EXCEPT !.BestNextAction = SelectDailyAction(selected),
                                               !.applied = TRUE])
           /\ themesSeen' = IF evidence # NULL THEN themesSeen \cup {theme} ELSE themesSeen
    /\ UNCHANGED evidence
    /\ SelFrame

NextSelector ==
    \/ \E ev \in WindowEvidences, termOrder \in TermOrders : BuildDayProfile(ev, termOrder)
    \/ \E candidates \in CandidateLists : GivenProfile(candidates)
    \/ ApplyThemeSelection

(***************************************************************************)
(* DetectTemporalShape: instants and durations in ticks of 30 seconds      *)
(***************************************************************************)
Hour == 2 * TicksPerHalfHour
StampInstants ==
    {0, 4 * TicksPerHalfHour, 5 * TicksPerHalfHour, 8 * TicksPerHalfHour,
     16 * TicksPerHalfHour, 18 * TicksPerHalfHour, 44 * TicksPerHalfHour}
TimestampLists == UNION {[1..n -> StampInstants] : n \in 0..MaxStamps}

\* sort.Slice with Before
RECURSIVE SortedStamps(_)
SortedStamps(ts) ==
    IF ts = <<>> THEN <<>>
    ELSE LET i == CHOOSE i \in DOMAIN ts : \A j \in DOMAIN ts : ts[i] <= ts[j]
         IN  <<ts[i]>> \o SortedStamps([k \in 1..(Len(ts) - 1) |->
                                            IF k < i THEN ts[k] ELSE ts[k + 1]])

\* for j := i; j < total && sorted[j].Before(windowEnd); j++
RECURSIVE InWindow(_, _, _)
InWindow(sorted, j, windowEnd) ==
    IF j <= Len(sorted) /\ sorted[j] < windowEnd
    THEN 1 + InWindow(sorted, j + 1, windowEnd)
    ELSE 0

\* float64(inWindow)/float64(total) >= 0.7 for some window start
Clustered(sorted) ==
    \E i \in DOMAIN sorted :
        10 * InWindow(sorted, i, sorted[i] + 2 * Hour) >= 7 * Len(sorted)

Gaps(sorted) == [i \in 1..(Len(sorted) - 1) |-> sorted[i + 1] - sorted[i]]

RECURSIVE SumSeq(_)
SumSeq(s) == IF s = <<>> THEN 0 ELSE Head(s) + SumSeq(Tail(s))

\* cv := variance / (avgGapSeconds * avgGapSeconds) < 1.0, the variance being
\* the mean of float64(gap - avgGap)^2 with the durations in nanoseconds and
\* avgGapSeconds in seconds: sumSq * NanosPerSecond^2 / n < avgGap^2
CVBelowOne(sumSq, n, avgGap) ==
    sumSq <= ((n * avgGap * avgGap - 1) \div NanosPerSecond) \div NanosPerSecond

DetectTemporalShape(timestamps) ==
    IF Len(timestamps) < 3 THEN "scattered"
    ELSE LET sorted == SortedStamps(timestamps)
             gaps == Gaps(sorted)
             totalGap == SumSeq(gaps)
             avgGap == totalGap \div Len(gaps)
             sumSq == SumSeq([i \in DOMAIN gaps |-> (gaps[i] - avgGap) * (gaps[i] - avgGap)])
         IN  IF Clustered(sorted) THEN "clustered"
             ELSE IF avgGap > 0 /\ CVBelowOne(sumSq, Len(gaps), avgGap) THEN "steady"
             ELSE "scattered"

ShapeFrame == UNCHANGED <<settledVars, selVars, appendVars, shutVars>>

\* BuildWindowEvidence: evidence.Timestamps, one instant per capture of the window
CollectTimestamps(timestamps) ==
    /\ stamps = NULL
    /\ stamps' = Some(timestamps)
    /\ shape' = ""
    /\ ShapeFrame

\* BuildDayProfile: profile.TemporalShape = DetectTemporalShape(evidence.Timestamps)
SetTemporalShape ==
    /\ stamps # NULL
    /\ shape = ""
    /\ shape' = DetectTemporalShape(stamps[1])
    /\ UNCHANGED stamps
    /\ ShapeFrame

NextShape ==
    \/ \E timestamps \in TimestampLists : CollectTimestamps(timestamps)
    \/ SetTemporalShape

(***************************************************************************)
(* vault.AppendLine, attempt by attempt, on the bytes of one file          *)
(***************************************************************************)
\* a line is a sequence of blocks of bytes, "\n" being the newline
AppendedLines == {<<"a1", "a2">>, <<"b1", "\n">>}
IdleAppender == [pc |-> "idle", attempt |-> 0, line |-> <<>>, before |-> <<>>,
                 result |-> ""]

\* appendLineOnce: "Ensure line ends with newline"
WithNewline(line) ==
    IF Len(line) = 0 \/ line[Len(line)] # "\n" THEN Append(line, "\n") ELSE line

\* how one appendLineOnce can end: MkdirAll or OpenFile fails, Write fails after
\* some of the bytes, Sync fails after the whole line, or nil
OnceOutcomes(line) ==
    {[written |-> 0, err |-> TRUE]}
        \cup {[written |-> n, err |-> TRUE] : n \in 0..Len(WithNewline(line))}
        \cup {[written |-> Len(WithNewline(line)), err |-> FALSE]}

AppendFrame == UNCHANGED <<settledVars, selVars, shapeVars, shutVars>>

\* AppendLine(path, line) is called
AppendLineCall(line) ==
    /\ la.pc = "idle"
    /\ lcalls < MaxAppendCalls
    /\ lcalls' = lcalls + 1
    /\ la' = [pc |-> "once", attempt |-> 0, line |-> line, before |-> lfile, result |-> ""]
    /\ UNCHANGED lfile
    /\ AppendFrame

\* one turn of the loop: the backoff sleep when attempt > 0, appendLineOnce,
\* return nil or go on; after the third failure the error is returned
appendLineOnce(outcome) ==
    /\ la.pc = "once"
    /\ lfile' = lfile \o SubSeq(WithNewline(la.line), 1, outcome.written)
    /\ la' = IF ~outcome.err
             THEN [la EXCEPT !.pc = "idle", !.result = "nil"]
             ELSE IF la.attempt + 1 < AppendAttempts
             THEN [la EXCEPT !.attempt = @ + 1]
             ELSE [la EXCEPT !.pc = "idle", !.attempt = @ + 1, !.result = "error"]
    /\ UNCHANGED lcalls
    /\ AppendFrame

NextAppend ==
    \/ \E line \in AppendedLines : AppendLineCall(line)
    \/ \E outcome \in OnceOutcomes(la.line) : appendLineOnce(outcome)

(***************************************************************************)
(* main: serving, then graceful shutdown                                   *)
(***************************************************************************)
Requests == 1..MaxRequests

ShutFrame == UNCHANGED <<settledVars, selVars, shapeVars, appendVars>>

\* a store operation issued by a handler, a goroutine or a job
StoreOp(by) == storeOps \cup {[by |-> by, afterClose |-> dbClosed]}

\* a request arrives while the listener is open and Capture starts
RequestArrives(r) ==
    /\ proc = "serving"
    /\ r \notin inflight
    /\ r \notin DOMAIN spawned
    /\ inflight' = inflight \cup {r}
    /\ UNCHANGED <<proc, spawned, job, dbClosed, storeOps, closedWith>>
    /\ ShutFrame

\* Capture: the store calls of the handler (LogCapture, AddPending), then
\* go h.boostSignals(...) and the reply
HandlerReplies(r) ==
    /\ r \in inflight
    /\ proc # "exited"
    /\ storeOps' = StoreOp("handler")
    /\ inflight' = inflight \ {r}
    /\ spawned' = [g \in DOMAIN spawned \cup {r} |->
                        IF g = r THEN MaxBoostCalls ELSE spawned[g]]
    /\ UNCHANGED <<proc, job, dbClosed, closedWith>>
    /\ ShutFrame

\* boostSignals: one signals.BoostSignal(h.db, key, ...) of its loop, the
\* goroutine ending after the last
BoostSignalCall(g) ==
    /\ g \in DOMAIN spawned
    /\ proc # "exited"
    /\ storeOps' = StoreOp("boostSignals")
    /\ spawned' = IF spawned[g] = 1
                  THEN [h \in DOMAIN spawned \ {g} |-> spawned[h]]
                  ELSE [spawned EXCEPT ![g] = @ - 1]
    /\ UNCHANGED <<proc, inflight, job, dbClosed, closedWith>>
    /\ ShutFrame

\* a job of the scheduler fires, calls the store (ExpirePending) and ends
JobStarts ==
    /\ proc \in {"serving", "draining", "stopping"}
    /\ job = "idle"
    /\ job' = "running"
    /\ UNCHANGED <<proc, inflight, spawned, dbClosed, storeOps, closedWith>>
    /\ ShutFrame

JobEnds ==
    /\ job = "running"
    /\ proc # "exited"
    /\ storeOps' = StoreOp("job")
    /\ job' = "idle"
    /\ UNCHANGED <<proc, inflight, spawned, dbClosed, closedWith>>
    /\ ShutFrame

\* <-done: SIGINT or SIGTERM
SignalReceived ==
    /\ proc = "serving"
    /\ proc' = "draining"
    /\ UNCHANGED <<inflight, spawned, job, dbClosed, storeOps, closedWith>>
    /\ ShutFrame

\* server.Shutdown(ctx) returns: nil once no handler is active, the error of
\* ctx after 10 s with handlers still active; main logs the error and goes on
ServerShutdown(timedOut) ==
    /\ proc = "draining"
    /\ IF timedOut THEN inflight # {} ELSE inflight = {}
    /\ proc' = "stopping"
    /\ UNCHANGED <<inflight, spawned, job, dbClosed, storeOps, closedWith>>
    /\ ShutFrame

\* sched.Stop(): returns once no job is running; no job fires afterwards
SchedulerStop ==
    /\ proc = "stopping"
    /\ job = "idle"
    /\ proc' = "closing"
    /\ UNCHANGED <<inflight, spawned, job, dbClosed, storeOps, closedWith>>
    /\ ShutFrame

\* database.Close()
DatabaseClose ==
    /\ proc = "closing"
    /\ dbClosed' = TRUE
    /\ closedWith' = Some([inflight |-> inflight, job |-> job])
    /\ proc' = "closed"
    /\ UNCHANGED <<inflight, spawned, job, storeOps>>
    /\ ShutFrame

\* main returns: the process and every goroutine of it end
MainReturns ==
    /\ proc = "closed"
    /\ proc' = "exited"
    /\ inflight' = {}
    /\ spawned' = [g \in {} |-> 0]
    /\ UNCHANGED <<job, dbClosed, storeOps, closedWith>>
    /\ ShutFrame

NextShutdown ==
    \/ \E r \in Requests : RequestArrives(r)
    \/ \E r \in Requests : HandlerReplies(r)
    \/ \E g \in Requests : BoostSignalCall(g)
    \/ JobStarts
    \/ JobEnds
    \/ SignalReceived
    \/ \E timedOut \in BOOLEAN : ServerShutdown(timedOut)
    \/ SchedulerStop
    \/ DatabaseClose
    \/ MainReturns

(***************************************************************************)
(* LLM client: Generate and GenerateText                                   *)
(***************************************************************************)
\* the instants, in seconds from the call, at which ctx.Done() can close;
\* NoDeadline is a context that stays open
NoDeadline == MaxDeadline + MaxAttempts * (MaxAttemptSeconds + 2) + 1
Deadlines == 0..MaxDeadline \cup {NoDeadline}
AttemptSeconds == 0..MaxAttemptSeconds

IdleCall ==
    [pc |-> "idle", format |-> "", attempt |-> 0, clock |-> 0, deadline |-> NoDeadline,
     outcomes |-> <<>>, waits |-> <<>>, waitFrom |-> <<>>, result |-> "", at |-> 0]

\* backoff of one second for every attempt after the first
backoff_Constant(attempt) == 1

\* time.Duration(1<<uint(attempt-1)) * time.Second
backoff(attempt) == 2 ^ (attempt - 1)

\* Generate (format json) and GenerateText (no format): the request is
\* marshalled and the loop starts at attempt 0
GenerateStart(format, deadline) ==
    /\ gen.pc \in {"idle", "done"}
    /\ ngen < MaxGenerateCalls
    /\ ngen' = ngen + 1
    /\ gen' = [IdleCall EXCEPT !.pc = "attempt", !.format = format, !.deadline = deadline]
    /\ UNCHANGED <<pendingVars, narratorVars, prun, dailyVars, signalVars, asyncVars,
                   purchaseVars, atomicVars, letterVars, concVars, noteVars, tailVars>>

\* the select before attempts 1 and 2: ctx.Done() against time.After(backoff).
\* A context that is done when the select starts, or closes before the timer
\* fires, ends the call with ctx.Err(); when both are ready at the same
\* instant select takes either.
GenerateBackoff(timerWins) ==
    /\ gen.pc = "backoff"
    /\ LET wait == backoff(gen.attempt)
           fires == gen.clock + wait
           cancelAt == IF gen.deadline > gen.clock THEN gen.deadline ELSE gen.clock
       IN  IF gen.deadline < fires \/ (gen.deadline = fires /\ ~timerWins)
           THEN gen' = [gen EXCEPT !.pc = "done", !.result = "cancelled",
                                   !.clock = cancelAt, !.at = cancelAt,
                                   !.waitFrom = Append(@, gen.clock)]
           ELSE gen' = [gen EXCEPT !.pc = "attempt", !.clock = fires,
                                   !.waits = Append(@, wait),
                                   !.waitFrom = Append(@, gen.clock)]
    /\ UNCHANGED <<pendingVars, narratorVars, prun, dailyVars, signalVars, asyncVars,
                   purchaseVars, ngen, atomicVars, letterVars, concVars, noteVars, tailVars>>

\* doGenerate: one POST /api/generate under ctx.  It fails when the server
\* fails and when the context is done before the response is read.
doGenerate(ok, seconds) ==
    /\ gen.pc = "attempt"
    /\ LET ends == IF gen.deadline < gen.clock + seconds
                   THEN (IF gen.deadline > gen.clock THEN gen.deadline ELSE gen.clock)
                   ELSE gen.clock + seconds
           err == ~ok \/ gen.deadline <= gen.clock + seconds
           outcomes == Append(gen.outcomes, IF err THEN "error" ELSE "ok")
       IN  IF ~err
           THEN gen' = [gen EXCEPT !.pc = "done", !.result = "response", !.clock = ends,
                                   !.at = ends, !.outcomes = outcomes]
           ELSE IF gen.attempt + 1 < MaxAttempts
           THEN gen' = [gen EXCEPT !.pc = "backoff", !.attempt = @ + 1, !.clock = ends,
                                   !.outcomes = outcomes]
           ELSE gen' = [gen EXCEPT !.pc = "done", !.result = "after 3 attempts",
                                   !.attempt = @ + 1, !.clock = ends, !.at = ends,
                                   !.outcomes = outcomes]
    /\ UNCHANGED <<pendingVars, narratorVars, prun, dailyVars, signalVars, asyncVars,
                   purchaseVars, ngen, atomicVars, letterVars, concVars, noteVars, tailVars>>

NextGenerate ==
    \/ \E format \in {"json", ""}, deadline \in Deadlines : GenerateStart(format, deadline)
    \/ \E timerWins \in BOOLEAN : GenerateBackoff(timerWins)
    \/ \E ok \in BOOLEAN, seconds \in AttemptSeconds : doGenerate(ok, seconds)

\* nothing has run yet
OtherInit ==
    /\ prun = NULL
    /\ dfile = NULL
    /\ dtmp = NULL
    /\ dwriter = [pc |-> "idle", call |-> "none"]
    /\ dold = NULL
    /\ dnew = NULL
    /\ dclock = 0
    /\ sclock = [day |-> 0, ticks |-> 0]
    /\ booster = [b \in Boosters |-> IdleBooster]
    /\ boosted = [key \in SignalKeys |-> 0]
    /\ nboost = 0
    /\ sdecay = [n |-> 0, at |-> 0, err |-> FALSE]
    /\ async = {}
    /\ asyncLog = {}
    /\ ledger = [vault |-> {}, store |-> {}]
    /\ gen = IdleCall
    /\ ngen = 0
    /\ afile = NULL
    /\ atmps = [name \in {} |-> <<>>]
    /\ aw = IdleWriter
    /\ anum = [calls |-> 0, temps |-> 0]
    /\ lday = 0
    /\ ljob = [type \in LetterTypes |-> [day |-> -1, left |-> <<>>]]
    /\ letterFiles = EmptyTable
    /\ letterRows = EmptyTable
    /\ generated = EmptyTable
    /\ lastLetters = [actor |-> "", letters |-> {}]
    /\ cu = [p \in Updaters |-> IdleUpdater]
    /\ cappended = {}
    /\ ctmp = [date \in Days |-> NULL]
    /\ cstmp = NULL
    /\ noteFiles = EmptyTable
    /\ nfiled = {}
    /\ evidence = NULL
    /\ profile = NULL
    /\ themesSeen = {}
    /\ stamps = NULL
    /\ shape = ""
    /\ lfile = <<>>
    /\ la = [pc |-> "idle", attempt |-> 0, line |-> <<>>, before |-> <<>>, result |-> ""]
    /\ lcalls = 0
    /\ proc = "serving"
    /\ inflight = {}
    /\ spawned = [g \in {} |-> 0]
    /\ job = "idle"
    /\ dbClosed = FALSE
    /\ storeOps = {}
    /\ closedWith = NULL

\* processBatch on a fresh JournalState, the LLM answering by script
processBatch(entries, script, appendOK) ==
    /\ prun = NULL
    /\ LET pipelineResult == Process(entries, script)
           lastEntry == entries[Len(entries)]
           outcome == IF pipelineResult.err THEN "pipeline failed"
                      ELSE IF ~appendOK THEN "failed to write to daily file"
                      ELSE "processed"
       IN  prun' = Some([entries |-> entries, script |-> script, appendOK |-> appendOK,
                         calls |-> IF script.extract # "ok" THEN <<>>
                                   ELSE NarrationCalls(script.attempts, 0, ""),
                         result |-> pipelineResult,
                         outcome |-> outcome,
                         state |-> IF outcome = "processed"
                                   THEN [LastProcessedRaw |-> lastEntry.name,
                                         LastProcessedTS |-> lastEntry.created,
                                         CurrentDay |-> lastEntry.day]
                                   ELSE ZeroState])
    /\ UNCHANGED <<pendingVars, narratorVars, dailyVars, signalVars, asyncVars, lateVars>>

vars == <<pendingVars, narratorVars, otherVars>>
Init ==
    /\ PendingInit /\ NarratorInit /\ OtherInit
    /\ signals = [k \in {} |-> 0]
    /\ sinit = signals

\* the same, over the tables signals can hold when the process starts
InitSeeded ==
    /\ PendingInit /\ NarratorInit /\ OtherInit
    /\ signals \in SeedTables
    /\ sinit = signals

\* one batch through the pipeline, over every script of LLM replies
NextPipeline ==
    \E entries \in PipelineBatches, script \in PipelineScripts, appendOK \in BOOLEAN :
        processBatch(entries, script, appendOK)
SpecPipeline == Init /\ [][NextPipeline]_vars

\* calls of the LLM client under every context and server behaviour
SpecGenerate == Init /\ [][NextGenerate]_vars

\* the capture handler alone, over every classifier reply and write outcome
NextCapture == Tick \/ CaptureAny
SpecCapture == Init /\ [][NextCapture]_vars

\* POST /capture in purchase mode
PurchaseAny ==
    /\ ncap < MaxFullCaptures
    /\ \E actor \in Actors, id \in CaptureIDs, result \in TransactionReplies,
          dbOK \in BOOLEAN, vout \in AppendLineOutcomes, addOK \in BOOLEAN,
          tout \in AppendLineOutcomes, txnOK \in BOOLEAN :
            handlePurchase(actor, id, result, dbOK, vout, addOK, tout, txnOK)

\* one capture in either mode
NextCaptureModes == Tick \/ CaptureAny \/ PurchaseAny
SpecCaptureModes == Init /\ [][NextCaptureModes]_vars

\* concurrent clarify requests against one run of the expiry job
NextClarify ==
    \/ Tick
    \/ CaptureForReview
    \/ Clarify(Clarifiers, {TRUE})
    \/ expirePending({1}, {AppendedOnce})
SpecClarify == Init /\ [][NextClarify]_vars

\* one clarify request at a time, retried, the store and the vault may fail
NextClarifyRetry ==
    \/ Tick
    \/ CaptureForReview
    \/ Clarify({1}, BOOLEAN)
SpecClarifyRetry == Init /\ [][NextClarifyRetry]_vars

\* overlapping runs of the expiry job against one clarify request
NextExpire ==
    \/ Tick
    \/ CaptureForReview
    \/ Clarify({1}, {TRUE})
    \/ expirePending(Expirers, AppendLineOutcomes)
SpecExpire == Init /\ [][NextExpire]_vars

\* the narrator while journal captures arrive, the process staying up
NextNarrator == WriteRawJournalCapture \/ Update
SpecNarrator == Init /\ [][NextNarrator]_vars

\* the narrator in a process that may die inside Update()
NextNarratorCrash == WriteRawJournalCapture \/ Update \/ Crash
SpecNarratorCrash == Init /\ [][NextNarratorCrash]_vars

\* the narrator called for ever, with a store and a vault that work and an
\* LLM that fails now and then but not for ever
NextNarratorLive ==
    \/ WriteRawJournalCapture
    \/ UpdateStart(TRUE)
    \/ UpdateAgain(TRUE)
    \/ ProcessPipeline
    \/ AppendToDaily(TRUE)
    \/ AppendMapping(TRUE)
    \/ SaveState(TRUE)
NarratorFairness ==
    /\ WF_vars(UpdateStart(TRUE) \/ UpdateAgain(TRUE))
    /\ WF_vars(ProcessPipeline)
    /\ SF_vars(ProcessPipeline /\ upc' = "append")
    /\ WF_vars(AppendToDaily(TRUE))
    /\ WF_vars(AppendMapping(TRUE))
    /\ WF_vars(SaveState(TRUE))
SpecNarratorLive == Init /\ [][NextNarratorLive]_vars /\ NarratorFairness

\* the daily-file writer
SpecDaily == Init /\ [][NextDaily]_vars

\* the signal layer
SpecSignals == InitSeeded /\ [][NextSignals]_vars

\* captures and clarifications with the goroutines they start
SpecAsync == Init /\ [][NextAsync]_vars

\* WriteFileAtomic calls, one after the other, under every I/O failure
SpecAtomic == Init /\ [][NextAtomic]_vars

\* the letter jobs of the scheduler and GET /letters
SpecLetters == Init /\ [][NextLetters]_vars

\* Update() calls of goroutines of one process over a few raw files
SpecConcurrentUpdate == Init /\ [][NextConcurrentUpdate]_vars

\* captures filed as notes, directly or by a clarification
SpecNotes == Init /\ [][NextNotes]_vars

\* profiles built from window evidence and profiles given directly
SpecSelector == Init /\ [][NextSelector]_vars

\* the temporal shape of the captures of a window
SpecShape == Init /\ [][NextShape]_vars

\* AppendLine calls on one file, one after the other
SpecAppend == Init /\ [][NextAppend]_vars

\* requests, their goroutines and a scheduler job around a graceful shutdown
SpecShutdown == Init /\ [][NextShutdown]_vars

\* the whole machine
Next ==
    \/ Tick
    \/ CaptureAny
    \/ Clarify(Clarifiers, BOOLEAN)
    \/ expirePending(Expirers, AppendLineOutcomes)
    \/ WriteRawJournalCapture
    \/ Update
    \/ Crash
    \/ NextPipeline
    \/ NextDaily
    \/ NextSignals
    \/ NextAsync
    \/ PurchaseAny
    \/ NextGenerate
    \/ NextAtomic
    \/ NextLetters
    \/ NextConcurrentUpdate
    \/ NextNotes
    \/ NextSelector
    \/ NextShape
    \/ NextAppend
    \/ NextShutdown
Spec == Init /\ [][Next]_vars

(***************************************************************************)
(* Properties                                                              *)
(***************************************************************************)
ChangedRows == {id \in DOMAIN pending : pending'[id] # pending[id]}

\* what the ResolvePending call made in this step returned, if one was made
ResolveReturned(c) ==
    /\ cpc[c] = "resolve"
    /\ cpc'[c] = "idle"
    /\ lastClarify'.http = 200 \/ lastClarify'.code = "WRITE_ERROR"

ResolveRefused(c) ==
    /\ cpc[c] = "resolve"
    /\ cpc'[c] = "idle"
    /\ lastClarify'.http = 410

ResolvedOnceStep ==
    /\ DOMAIN pending \subseteq DOMAIN pending'
    /\ \A id \in DOMAIN pending :
          pending[id].resolved_at # NULL => pending'[id] = pending[id]
    /\ \A c \in Clarifiers :
          /\ ResolveReturned(c) =>
                /\ ChangedRows = {creq[c].id}
                /\ RowState(pending, creq[c].id, now) = "active"
                /\ pending'[creq[c].id].resolved_at = Some(now)
                /\ pending'[creq[c].id].destination = creq[c].destination
          /\ ResolveRefused(c) =>
                /\ ChangedRows = {}
                /\ RowState(pending, creq[c].id, now) # "active"

\* C1: whatever the interleaving of Clarify requests and expire-pending runs,
\* a pending row is resolved at most once: ResolvePending returns true exactly
\* when it changed one active row (unresolved, now < expires_at), it changes no
\* row when it returns false, and a row whose resolved_at is set keeps its
\* resolved_at and destination in every later step.
C1_ResolvedAtMostOnce == [][ResolvedOnceStep]_vars

\* C1 happens: two requests raced for an active row, one filed it and the
\* other found it resolved at its own UPDATE
C1_RaceLost ==
    /\ lastClarify.http = 410
    /\ lastClarify.atLookup = "active"
    /\ lastClarify.atResolve = "resolved"
    /\ pending[lastClarify.id].destination \in Destinations

ExpectedClarifyStatus(rowState) ==
    CASE rowState \in {"missing", "resolved", "expired_by_job"} -> StatusNotFound
      [] rowState = "expired" -> StatusExpired
      [] OTHER -> StatusFiled

ClarifyHTTP(status) ==
    CASE status = StatusNotFound -> 404
      [] status = StatusExpired -> 410
      [] OTHER -> 200

\* C2: a status reply of POST /clarify is the one the pending row calls for:
\* not_found (404) for a missing or already resolved row, expired (410) for an
\* unresolved row with now >= expires_at, filed (200) otherwise; the row is
\* taken as it was at the lookup or as it was at the conditional update (a
\* row the expiry job marked in between counts as expired).
C2_ClarifyReplyMatchesRow ==
    lastClarify.status # "" =>
        /\ lastClarify.http = ClarifyHTTP(lastClarify.status)
        /\ \/ lastClarify.status = ExpectedClarifyStatus(lastClarify.atLookup)
           \/ /\ lastClarify.atResolve # ""
              /\ lastClarify.status = ExpectedClarifyStatus(lastClarify.atResolve)
           \/ /\ lastClarify.status = StatusExpired
              /\ lastClarify.atResolve = "expired_by_job"

\* C3: ExpirePending returns exactly the rows its UPDATE changed, also when
\* another run of ExpirePending or a ResolvePending comes in between.
C3_ReturnedAreUpdated ==
    \A e \in Expirers : eupdated[e] # NULL => eupdated[e][1] = eselected[e]

NarratedNames == UNION {{daily[b].files[i] : i \in DOMAIN daily[b].files} : b \in DOMAIN daily}

QueuedNames(queue) ==
    UNION {{queue[b].entries[i].name : i \in DOMAIN queue[b].entries} : b \in DOMAIN queue}

\* C4: once a raw file is in a batch appended to a daily file, no Update()
\* that starts after an Update() has returned without error takes it into a
\* batch again.
C4_NeverNarratedTwice ==
    [][(upc = "idle" /\ upc' = "batch" /\ lastEnd = "returned")
          => QueuedNames(uqueue') \cap NarratedNames = {}]_vars

\* C5: an Update() that runs after the process died inside Update() takes no
\* entry into a batch that was already appended to a daily file.
C5_RerunAfterCrashSkipsAppended ==
    [][(upc = "idle" /\ upc' = "batch" /\ lastEnd = "crash")
          => QueuedNames(uqueue') \cap NarratedNames = {}]_vars

CaptureLogged(status) ==
    /\ lastCapture.id \in DOMAIN capture_log
    /\ capture_log[lastCapture.id].status = status

PendingAdded(choices) ==
    /\ lastCapture.id \in DOMAIN pending
    /\ pending[lastCapture.id].actor = lastCapture.actor
    /\ pending[lastCapture.id].choices = choices

\* C6: a note-mode capture ends in one of four outcomes. Transport failure:
\* logged as pending_classification, pending row with the full category list,
\* reply needs_review. Parse error: pending row, reply needs_review. Low
\* confidence: pending row with the classifier's choices, reply needs_review.
\* Otherwise: logged as filed, note written, reply received.
C6_FourOutcomes ==
    ncap > 0 =>
        CASE lastCapture.class = "transport" ->
                /\ CaptureLogged(StatusPendingClassification)
                /\ PendingAdded(FullChoices)
                /\ lastCapture.status = StatusNeedsReview
          [] lastCapture.class = "parse_error" ->
                /\ PendingAdded(lastCapture.choices)
                /\ lastCapture.status = StatusNeedsReview
          [] lastCapture.class = "low" ->
                /\ PendingAdded(lastCapture.choices)
                /\ lastCapture.status = StatusNeedsReview
          [] OTHER ->
                /\ CaptureLogged(StatusFiled)
                /\ \E n \in notes : n.id = lastCapture.id
                /\ lastCapture.status = StatusReceived

\* C7: after POST /capture replied needs_review, a pending row for that
\* capture_id and actor exists, and GetPending for the actor lists it for as
\* long as it is neither resolved nor expired.
C7_NeedsReviewHasPendingRow ==
    lastCapture.status = StatusNeedsReview =>
        /\ lastCapture.id \in DOMAIN pending
        /\ pending[lastCapture.id].actor = lastCapture.actor
        /\ RowState(pending, lastCapture.id, now) = "active"
              => lastCapture.id \in GetPending(pending, lastCapture.actor, now)

CaptureLogStep ==
    /\ \A id \in DOMAIN capture_log :
          id \in DOMAIN capture_log' /\ capture_log'[id] = capture_log[id]
    /\ (ncap' # ncap /\ dbLogCall'.existed) =>
          (dbLogCall'.err /\ capture_log' = capture_log)

\* C8: the capture log has one row per capture_id: LogCapture for a
\* capture_id that is present returns an error and leaves the row as it was,
\* and no step changes or removes a row once it is inserted.
C8_CaptureLogInsertOnly == [][CaptureLogStep]_vars

\* C8 happens: a second capture came with the capture_id of a logged one and
\* LogCapture refused it
C8_DuplicateRefused ==
    /\ ncap = MaxCaptureCalls
    /\ dbLogCall.existed
    /\ dbLogCall.err
    /\ dbLogCall.id \in DOMAIN capture_log

\* C9: the vault capture log gets one `expired` line per expired row, never
\* two for one capture_id, and none for a row that Clarify resolved.
C9_OneExpiredEntry ==
    \A id \in CaptureIDs :
        /\ vaultLog[<<id, StatusExpired>>] <= 1
        /\ vaultLog[<<id, StatusExpired>>] > 0 =>
              (id \in DOMAIN pending /\ pending[id].destination = "expired")

MappingLines(b) == {i \in DOMAIN mapLog : mapLog[i].batch = b}

\* C10: every batch appended to a daily file, once processBatch is through
\* with it, has exactly one mapping line, with raw_files the batch's file
\* names and verifier_passed true iff its final verification passed.
C10_OneMappingPerBatch ==
    \A b \in DOMAIN daily :
        daily[b].mapping # "none" =>
            /\ Cardinality(MappingLines(b)) = 1
            /\ \A i \in MappingLines(b) :
                  /\ mapLog[i].line.RawFiles = daily[b].files
                  /\ mapLog[i].line.VerifierPassed <=> (daily[b].final = "pass")

\* the replies of the verifier to the attempts of the last processBatch call
\* that were made and verified
VerifiedAttempts ==
    IF prun = NULL THEN {}
    ELSE {k \in 1..Len(prun[1].calls) :
            prun[1].script.attempts[k] \notin {"narrate_error", "verify_error"}}

AllAttemptsFailed ==
    /\ prun # NULL
    /\ prun[1].script.extract = "ok"
    /\ \A k \in 1..(MaxRetries + 1) : prun[1].script.attempts[k] = "fail"

\* C11: one batch gets at most max_retries+1 narration attempts, the first
\* with the normal prompt and each later one with the strict prompt carrying
\* the feedback of the verification before it; the loop stops at the first
\* attempt that passes (verified=true); when no attempt passes, the last
\* narration is accepted with verified=false and the batch does not fail.
C11_RetryLoop ==
    prun # NULL =>
        LET r == prun[1]
            n == Len(r.calls)
        IN  /\ n <= MaxRetries + 1
            /\ r.script.extract = "ok" => n >= 1
            /\ \A k \in 1..n :
                  /\ k = 1 => r.calls[k] = [prompt |-> "narrate", feedback |-> ""]
                  /\ k > 1 => /\ r.calls[k].prompt = "narrateStrict"
                              /\ r.calls[k].feedback = VerifierFeedback(k - 1)
                              /\ r.script.attempts[k - 1] = "fail"
                  /\ r.script.attempts[k] = "pass" =>
                        /\ n = k
                        /\ ~r.result.err
                        /\ r.result.Verified
                        /\ r.result.Attempts = k
                  /\ (r.script.attempts[k] = "fail" /\ k < MaxRetries + 1) => n > k
            /\ AllAttemptsFailed =>
                  /\ n = MaxRetries + 1
                  /\ ~r.result.err
                  /\ ~r.result.Verified
                  /\ r.result.Attempts = MaxRetries + 1
                  /\ r.outcome # "pipeline failed"
            /\ (~r.result.err /\ r.result.Verified) => r.script.attempts[n] = "pass"

\* every attempt was used and failed verification, the batch went through
C11_AcceptedUnverified ==
    /\ AllAttemptsFailed
    /\ Len(prun[1].calls) = MaxRetries + 1
    /\ prun[1].calls[MaxRetries + 1].feedback = VerifierFeedback(MaxRetries)
    /\ ~prun[1].result.Verified
    /\ prun[1].outcome = "processed"

\* C12: a verifier reply that is not JSON does not fail the batch: the
\* narration is accepted with verified=false, the batch is appended and the
\* watermark moves to its last entry.
C12_MalformedVerifierAccepted ==
    (/\ prun # NULL
     /\ prun[1].appendOK
     /\ \E k \in VerifiedAttempts : prun[1].script.attempts[k] = "verify_malformed")
    => /\ ~prun[1].result.err
       /\ ~prun[1].result.Verified
       /\ prun[1].outcome = "processed"
       /\ prun[1].state.LastProcessedTS = prun[1].entries[Len(prun[1].entries)].created

\* C13: a reader of a daily file never sees a partly written file: creation,
\* append and close each show only the complete old or the complete new
\* version.
C13_ReaderSeesWholeVersion == dfile = dold \/ dfile = dnew

\* the index of the line closing the front-matter, 0 without front-matter
FrontmatterEnd(lines) ==
    IF lines = NULL \/ lines[1] # Dashes \/ ~\E i \in 2..Len(lines) : lines[i] = Dashes
    THEN 0
    ELSE CHOOSE i \in 2..Len(lines) :
            lines[i] = Dashes /\ \A j \in 2..(i - 1) : lines[j] # Dashes

Body(lines) == SubSeq(lines, FrontmatterEnd(lines) + 1, Len(lines))

FrontmatterWithout(lines, field) ==
    SelectSeq(SubSeq(lines, 1, FrontmatterEnd(lines)), LAMBDA l : l[1] # field)

\* C14: an append to an existing daily file keeps the body it found (up to
\* the newline that ended it) in front of the new batch and keeps every
\* front-matter line but updated_at; closing the day keeps the body.
C14_DailyFrame ==
    (dwriter.pc = "idle" /\ dold # NULL) =>
        /\ dwriter.call = "append" =>
              /\ \E n \in 0..Len(Body(dfile)) :
                    SubSeq(Body(dfile), 1, n) = TrimRight(Body(dold))
              /\ FrontmatterWithout(dfile, "updated_at")
                    = FrontmatterWithout(dold, "updated_at")
        /\ dwriter.call = "close" =>
              /\ Body(dfile) = Body(dold)
              /\ <<"status", "closed">> \in
                    {dfile[i] : i \in 1..FrontmatterEnd(dfile)}

\* a day closed after a batch whose text has key-like lines and a "---" line
\* was appended to it
C14_ClosedAfterAppend ==
    /\ dwriter = [pc |-> "idle", call |-> "close"]
    /\ dold # NULL
    /\ dfile # dold
    /\ \E i \in FrontmatterEnd(dfile)..Len(dfile) : dfile[i] = <<"status", "after">>
    /\ \E i \in FrontmatterEnd(dfile)..Len(dfile) : dfile[i] = <<"updated_at", "noon">>

NoNewRawFile == ~\E f \in rawFiles : f.created > stateFile.LastProcessedTS

\* C15: an Update() started when no raw file has created > last_processed_ts
\* returns at once: no daily file, no audit-log line and no state file is
\* written, and its result counts zero processed entries.
C15_UpdateNoOp ==
    [][(upc = "idle" /\ nupd' = nupd + 1 /\ NoNewRawFile) =>
            /\ upc' = "idle"
            /\ uresult' = 0
            /\ daily' = daily
            /\ mapLog' = mapLog
            /\ stateFile' = stateFile
            /\ rawFiles' = rawFiles]_vars

\* the second Update() found nothing new after the first one narrated a file
C15_SecondUpdateIdle ==
    /\ nupd = 2
    /\ upc = "idle"
    /\ lastEnd = "returned"
    /\ uresult = 0
    /\ Len(daily) = 1
    /\ stateFile.LastProcessedTS > 0
    /\ NoNewRawFile

\* C16: every stored signal has 0 <= weight <= cap(type), after every boost
\* and every decay_all, in any sequence of them.
C16_WeightWithinCap ==
    \A k \in DOMAIN signals :
        0 <= signals[k].Weight /\ signals[k].Weight <= getCap(signals[k].Type)

\* a boost was cut at the cap while the decay job lowered another signal
C16_CappedAndDecayed ==
    /\ sdecay.n >= 1
    /\ \E k \in DOMAIN signals :
          /\ boosted[k] >= 1
          /\ signals[k].Weight = getCap(signals[k].Type)
          /\ \E j \in (DOMAIN signals \cap DOMAIN sinit) \ {k} :
                signals[j].Weight < sinit[j].Weight

\* C17: when decay_all completes at time d, every signal was either deleted
\* by rule (not an ever_dominant project, decayed weight < 10^-3) or is
\* stored with last_updated >= d and weight <= cap(type); every
\* ever_dominant project is still stored with weight >= FLOOR_PROJECT.
C17_AfterDecayAll ==
    [][(sdecay'.n = sdecay.n + 1 /\ ~sdecay'.err) =>
        \A k \in DOMAIN signals :
            LET s == signals[k]
                d == sclock.day
                dominant == s.Type = "project" /\ s.EverDominant
            IN  /\ k \notin DOMAIN signals' =>
                      /\ ~dominant
                      /\ Decayed(s.Weight, d - s.LastUpdated, s.Type) < Scale \div 1000
                /\ k \in DOMAIN signals' =>
                      /\ signals'[k].LastUpdated >= d
                      /\ signals'[k].Weight <= getCap(signals'[k].Type)
                /\ dominant =>
                      /\ k \in DOMAIN signals'
                      /\ signals'[k].Weight >= FloorProject]_vars

\* the decay job has just deleted a boosted term and floored a dominant project
C17_DeletedAndFloored ==
    /\ sdecay.n >= 1
    /\ ~sdecay.err
    /\ sdecay.at = sclock.day
    /\ boosted["term:sleep"] >= 1
    /\ "term:sleep" \notin DOMAIN signals
    /\ "project:brain" \in DOMAIN signals
    /\ signals["project:brain"].EverDominant
    /\ signals["project:brain"].Weight = FloorProject
    /\ signals["project:brain"].LastUpdated = sclock.day

\* C18: from an absent signal, two boosts of one (key, type) with no time
\* passing leave weight min(cap(type), 2*boost(type)), however the two
\* calls interleave.
C18_TwoBoostsAddUp ==
    \A c \in BoostCalls :
        (/\ c[1] \notin DOMAIN sinit
         /\ sclock.day = 0
         /\ sdecay.n = 0
         /\ boosted[c[1]] = 2
         /\ \A b \in Boosters : booster[b].key # c[1])
        => /\ c[1] \in DOMAIN signals
           /\ signals[c[1]].Weight =
                 IF 2 * getBoost(c[2]) > getCap(c[2]) THEN getCap(c[2])
                 ELSE 2 * getBoost(c[2])

\* C19: the reply of Capture and of Clarify is the same whether the signal
\* boost, the idea expansion and the journal narration they start succeed,
\* fail or time out: a goroutine ending leaves both replies as they were.
C19_ReplyUntouchedByGoroutines ==
    [][asyncLog' # asyncLog => (lastCapture' = lastCapture /\ lastClarify' = lastClarify)]_vars

\* the idea expansion of a filed capture timed out and the boost started by
\* a Clarify failed; the requests were answered 200
C19_FailedAfterReply ==
    /\ lastCapture.http = 200
    /\ lastClarify.http = 200
    /\ lastClarify.status = StatusFiled
    /\ \E e \in asyncLog :
          /\ e.task.kind = "expandIdea"
          /\ e.outcome = "timeout"
          /\ [id |-> e.task.id, category |-> CategoryIdeas] \in notes
    /\ \E e \in asyncLog :
          /\ e.task = [kind |-> "boostSignals", from |-> "clarify", id |-> lastClarify.id]
          /\ e.outcome = "error"

\* C20: a note capture whose classifier reply names Journal with confidence
\* at or above the threshold is filed, not sent to review, and its note is
\* written under Journal/Raw.
C20_JournalReplyFiled ==
    [][(\E actor \in Actors, id \in CaptureIDs, k \in Confidences,
           dbOK \in BOOLEAN, vout \in AppendLineOutcomes, addOK \in BOOLEAN :
            /\ k >= ConfidenceThreshold
            /\ Capture(actor, id, [kind |-> "json", category |-> "Journal",
                                   confidence |-> k], dbOK, vout, addOK, TRUE))
        => /\ lastCapture'.status = StatusReceived
           /\ lastCapture'.id \notin DOMAIN pending'
           /\ [id |-> lastCapture'.id, category |-> CategoryJournal] \in notes']_vars
(***************************************************************************)
(* Choices of a needs_review result                                        *)
(***************************************************************************)
ValidCategoryNames == {allCategories[i] : i \in DOMAIN allCategories}

\* C21: the choices the classifier returns with a needs_review result are
\* distinct, non-empty, valid category names: after a parse failure the first
\* four entries of the category list, after low confidence the validated
\* primary category followed by the other categories in list order, cut to
\* four.
C21_ChoicesAreCategories ==
    lastCapture.class \in {"parse_error", "low"} =>
        LET ch == lastCapture.choices
        IN  /\ \A i \in DOMAIN ch : ch[i] # "" /\ ch[i] \in ValidCategoryNames
            /\ \A i, j \in DOMAIN ch : i # j => ch[i] # ch[j]
            /\ lastCapture.class = "parse_error" =>
                  ch = SubSeq(allCategories, 1, MaxChoices)
            /\ lastCapture.class = "low" =>
                  ch = SubSeq(<<ch[1]>> \o SelectSeqNot(allCategories, ch[1]), 1, MaxChoices)

(***************************************************************************)
(* Stored choices                                                          *)
(***************************************************************************)
\* C22: every pending-clarification row stored has at most 4 choices,
\* whichever path created it: low confidence, parse error, classifier
\* transport failure or low-confidence purchase.
C22_AtMostFourChoices ==
    \A id \in DOMAIN pending : Len(pending[id].choices) <= MaxChoices

(***************************************************************************)
(* LLM client retries                                                      *)
(***************************************************************************)
\* the context was done before the timer of the i-th wait of the call fired
DoneDuringWait(i) ==
    gen.deadline < gen.waitFrom[i] + <<1, 2>>[i]

\* C23: one call of the LLM client makes at most 3 HTTP attempts with waits
\* of 1 s then 2 s between them, returns the first successful reply, returns
\* the cancellation error at once when the context is cancelled or its
\* deadline fires during a backoff wait, and returns an error after the third
\* failed attempt.
C23_GenerateRetries ==
    gen.pc = "done" =>
        LET n == Len(gen.outcomes)
            w == Len(gen.waitFrom)
        IN  /\ n <= 3
            /\ gen.waits = SubSeq(<<1, 2>>, 1, Len(gen.waits))
            /\ \A i \in 1..(n - 1) : gen.outcomes[i] = "error"
            /\ gen.result = "response" <=> (n > 0 /\ gen.outcomes[n] = "ok")
            /\ gen.result = "response" => Len(gen.waits) = n - 1
            /\ gen.result = "after 3 attempts" <=>
                  (n = 3 /\ gen.outcomes[3] = "error" /\ gen.waits = <<1, 2>>)
            /\ (\E i \in 1..w : DoneDuringWait(i)) =>
                  /\ gen.result = "cancelled"
                  /\ DoneDuringWait(w)
                  /\ gen.at = (IF gen.deadline > gen.waitFrom[w] THEN gen.deadline
                               ELSE gen.waitFrom[w])
            /\ gen.result = "cancelled" =>
                  (w > 0 /\ gen.deadline <= gen.waitFrom[w] + <<1, 2>>[w])

\* C23 happens: two attempts failed with a full wait of 1 s between them and
\* the deadline fired inside the wait of 2 s
C23_CancelledMidBackoff ==
    /\ gen.pc = "done"
    /\ gen.result = "cancelled"
    /\ gen.outcomes = <<"error", "error">>
    /\ gen.waits = <<1>>
    /\ gen.deadline > gen.waitFrom[2]
    /\ gen.deadline < gen.waitFrom[2] + 2

(***************************************************************************)
(* Atomic file write                                                       *)
(***************************************************************************)
\* C24: WriteFileAtomic makes at most 3 attempts; an attempt that fails
\* before the rename leaves no temp file of its own behind; the target holds
\* its complete previous content or the complete new content at every
\* moment; when all attempts fail the caller gets an error and the target is
\* as it was.
C24_WriteFileAtomic ==
    /\ aw.attempt <= 3
    /\ aw.pc # "idle" => afile \in {aw.old, Some(aw.content)}
    /\ aw.pc \in {"sleep", "mkdir", "done"} => aw.created \cap DOMAIN atmps = {}
    /\ (aw.pc = "done" /\ aw.result = "nil") => afile = Some(aw.content)
    /\ (aw.pc = "done" /\ aw.result # "nil") =>
          /\ aw.attempt = 3
          /\ afile = aw.old
    /\ (aw.pc = "done" /\ aw.attempt < 3) => aw.result = "nil"

\* C24 happens: a call with new content for an existing file failed three
\* times, each attempt after it had created its temp file
C24_ThreeAttemptsFailed ==
    /\ aw.pc = "done"
    /\ aw.result = "after 3 attempts"
    /\ aw.old # NULL
    /\ aw.old # Some(aw.content)
    /\ Cardinality(aw.created) = 3

(***************************************************************************)
(* Letters                                                                 *)
(***************************************************************************)
\* the content part of a letter file: the body without its closing newline
FileContent(file) ==
    LET body == extractLetterBody(file)
    IN  IF body # <<>> /\ body[Len(body)] = "\n" THEN SubSeq(body, 1, Len(body) - 1)
        ELSE body

\* C25: the text of every daily or weekly letter in the vault is the
\* sanitised form of the text generated for it, greeting prefix and signoff
\* suffix cut, whether or not validation passed.
C25_LettersSanitized ==
    \A path \in DOMAIN letterFiles :
        LET file == letterFiles[path]
        IN  FileContent(file) = SanitizeLetter(generated[path])

\* C30: letters are kept apart per actor: after letters of one type were
\* generated for two actors for one for_date, the file of each recorded
\* letter still holds that letter, and GET /letters for an actor returns for
\* each of the actor's records the text generated for that record, never the
\* text of another actor's letter.
C30_LettersPerActor ==
    /\ \A id \in DOMAIN letterRows :
          FileID(letterFiles[letterRows[id].file_path]) = id
    /\ \A rec \in lastLetters.letters :
          /\ letterRows[rec.LetterID].actor = lastLetters.actor
          /\ rec.File = rec.LetterID

(***************************************************************************)
(* Liveness of narration                                                   *)
(***************************************************************************)
\* C26: every raw file in Journal/Raw is in the end part of a narrated
\* batch, as long as Update() keeps being called and the LLM succeeds in the
\* end: also an entry of a batch that failed while a later batch of the run
\* succeeded, and a file whose created instant is at or before the watermark.
C26_EveryRawFileNarrated ==
    \A name \in 1..MaxRawFiles :
        (\E f \in rawFiles : f.name = name) ~> (name \in NarratedNames)

(***************************************************************************)
(* Concurrent Update() calls                                               *)
(***************************************************************************)
BatchNames(batch) == {batch.files[i] : i \in DOMAIN batch.files}

\* C27: two Update() calls running at once in one process never narrate a
\* raw entry twice, never lose the append of a batch to the daily file, and
\* never leave the state file with a watermark older than a batch that was
\* appended.
C27_ConcurrentUpdatesSafe ==
    /\ \A a, b \in cappended : a # b => BatchNames(a.batch) \cap BatchNames(b.batch) = {}
    /\ \A a \in cappended :
          \E i \in DOMAIN daily : daily[i].date = a.batch.date /\ daily[i].files = a.batch.files
    /\ (\A p \in Updaters : cu[p].pc = "idle") =>
          \A a \in cappended : \A f \in rawFiles :
              f.name \in BatchNames(a.batch) => f.created <= stateFile.LastProcessedTS

(***************************************************************************)
(* Racing clarifications                                                   *)
(***************************************************************************)
\* C28: of two Clarify requests racing for one active capture_id one replies
\* filed and writes the note; the other, whose row the winner resolved
\* before its own conditional UPDATE, replies not_found with HTTP 404, as
\* for any row that is already resolved.
C28_RaceLoserNotFound ==
    /\ \A id \in CaptureIDs : Cardinality({n \in notes : n.id = id}) <= 1
    /\ (lastClarify.atLookup = "active" /\ lastClarify.atResolve = "resolved") =>
          /\ lastClarify.status = StatusNotFound
          /\ lastClarify.http = 404

(***************************************************************************)
(* Notes of distinct captures                                              *)
(***************************************************************************)
\* C29: two filed captures with distinct capture_ids never overwrite each
\* other's note: once both are filed, the note of each is in the vault, also
\* when category, date and title are the same.
C29_EveryFiledNoteKept ==
    \A note \in nfiled : \E path \in DOMAIN noteFiles : noteFiles[path] = note

(***************************************************************************)
(* Clarify when the vault write fails                                      *)
(***************************************************************************)
\* C31: a pending row is marked resolved to a destination only if its note
\* was written: after a Clarify that ended with WRITE_ERROR the row is still
\* unresolved, so that a retried Clarify can file the capture.
C31_ResolvedOnlyIfWritten ==
    \A id \in DOMAIN pending :
        (pending[id].resolved_at # NULL /\ pending[id].destination # "expired")
            => \E n \in notes : n.id = id

(***************************************************************************)
(* The narration watermark                                                 *)
(***************************************************************************)
CreatedOf(name) == (CHOOSE f \in rawFiles : f.name = name).created

MaxCreated(names) == CHOOSE t \in {CreatedOf(n) : n \in names} :
                        \A n \in names : CreatedOf(n) <= t

\* C32: every processed batch leaves last_processed_ts at the greatest created
\* instant of the entries narrated so far, and never below what it was, also
\* when the days of the file names are ordered differently from the created
\* instants.
C32_WatermarkMonotonic ==
    [][(upc = "map" /\ upc' # "map")
          => /\ ustate'.LastProcessedTS >= ustate.LastProcessedTS
             /\ ustate'.LastProcessedTS = MaxCreated(NarratedNames')]_vars

(***************************************************************************)
(* The destination of a clarification                                      *)
(***************************************************************************)
StoredChoices(id) == {pending[id].choices[i] : i \in DOMAIN pending[id].choices}

\* C33: Clarify files a capture only to one of the choices stored on its
\* pending row: a row resolved by a clarification carries one of its choices
\* as destination, and the note of a clarified capture is in one of them.
C33_DestinationIsAChoice ==
    /\ \A id \in DOMAIN pending :
            (pending[id].resolved_at # NULL /\ pending[id].destination # "expired")
                => pending[id].destination \in StoredChoices(id)
    /\ \A n \in notes :
            n.id \in DOMAIN pending => n.category \in StoredChoices(n.id)

(***************************************************************************)
(* Theme and action selection                                              *)
(***************************************************************************)
Applied == profile # NULL /\ profile[1].applied

\* C34: the daily action of a profile built from window evidence follows the
\* priority order: a project with a next-action string, else the review of
\* pending clarifications when any is pending, else the countermove of the
\* selected theme; it is none only when no theme is selected.
C34_DailyActionPriority ==
    (Applied /\ evidence # NULL) =>
        LET p == profile[1]
            projects == {i \in DOMAIN p.ProjectActivity :
                            /\ p.ProjectActivity[i].HasNextAction
                            /\ p.ProjectActivity[i].NextAction # ""}
            action == p.BestNextAction
        IN  /\ projects # {} => (action # NULL /\ action[1].Source = "project_next")
            /\ (projects = {} /\ p.PendingCount > 0)
                  => (action # NULL /\ action[1].Source = "pending_clarify")
            /\ (projects = {} /\ p.PendingCount = 0 /\ p.SelectedTheme # NULL)
                  => (action # NULL /\ action[1].Source = "countermove")
            /\ (projects = {} /\ p.PendingCount = 0 /\ p.SelectedTheme = NULL)
                  => action = NULL

\* friction > stalled > project_focus, health_focus, scattered > term_repeat
ThemeRank(sourceType) ==
    CASE sourceType = "friction" -> 4
      [] sourceType = "stalled" -> 3
      [] sourceType = "term_repeat" -> 1
      [] OTHER -> 2

\* C35: for candidates sorted by evidence, as DetectThemes leaves them, the
\* selected theme is nil exactly when there is no candidate or the highest
\* evidence is below 2; otherwise it is a candidate with the highest evidence
\* whose source type ranks highest among the candidates with that evidence.
C35_SelectTheme ==
    Applied =>
        LET cs == profile[1].ThemeCandidates
            theme == profile[1].SelectedTheme
            top == MaxCount([i \in DOMAIN cs |-> cs[i].Evidence])
        IN  /\ theme = NULL <=> (cs = <<>> \/ top < 2)
            /\ theme # NULL =>
                  /\ \E i \in DOMAIN cs : cs[i] = theme[1]
                  /\ theme[1].Evidence = top
                  /\ \A i \in DOMAIN cs :
                        cs[i].Evidence = top
                            => ThemeRank(theme[1].SourceType) >= ThemeRank(cs[i].SourceType)

\* C35 happens: the first candidate lost a tie on evidence to a later candidate
\* of a higher rank
C35_TieWonByRank ==
    /\ Applied
    /\ Len(profile[1].ThemeCandidates) >= 2
    /\ profile[1].SelectedTheme # NULL
    /\ profile[1].SelectedTheme[1].SourceType # profile[1].ThemeCandidates[1].SourceType
    /\ profile[1].SelectedTheme[1].Evidence = profile[1].ThemeCandidates[1].Evidence

\* C36: the same window evidence always gives the same selected theme, name
\* and source type, whatever the ties.
C36_SameEvidenceSameTheme ==
    \A a, b \in themesSeen :
        /\ a = NULL <=> b = NULL
        /\ a # NULL => (a[1].Name = b[1].Name /\ a[1].SourceType = b[1].SourceType)

(***************************************************************************)
(* Temporal shape                                                          *)
(***************************************************************************)
\* the gaps of the instants in hand, in ticks
StampGaps == Gaps(SortedStamps(stamps[1]))

\* variance / mean^2 < 1 with both in the same unit: n * sum(g^2) < 2 * sum(g)^2
SquaredCVBelowOne(gaps) ==
    Len(gaps) * SumSeq([i \in DOMAIN gaps |-> gaps[i] * gaps[i]])
        < 2 * SumSeq(gaps) * SumSeq(gaps)

\* C37: fewer than 3 timestamps give scattered; 3 or more with no 2-hour
\* window holding 70% of them give steady exactly when the squared coefficient
\* of variation of the gaps, variance and squared mean in one unit, is below
\* 1, and scattered otherwise.
C37_SteadyIffCVBelowOne ==
    (stamps # NULL /\ shape # "") =>
        IF Len(stamps[1]) < 3 THEN shape = "scattered"
        ELSE ~Clustered(SortedStamps(stamps[1])) =>
                /\ shape \in {"steady", "scattered"}
                /\ shape = "steady" <=> SquaredCVBelowOne(StampGaps)

\* C38: exactly 3 timestamps that span at most 2 hours, 2 hours included, are
\* clustered.
C38_ThreeWithinTwoHours ==
    (stamps # NULL /\ shape # "" /\ Len(stamps[1]) = 3) =>
        LET sorted == SortedStamps(stamps[1])
        IN  sorted[3] - sorted[1] <= 2 * Hour => shape = "clustered"

(***************************************************************************)
(* AppendLine adds its line once                                           *)
(***************************************************************************)
\* the bytes the call in hand has added to the file
AddedByCall == SubSeq(lfile, Len(la.before) + 1, Len(lfile))

\* how often the newline-terminated line stands in those bytes
Occurrences(bytes, line) ==
    Cardinality({i \in 1..Len(bytes) :
                    /\ i + Len(line) - 1 <= Len(bytes)
                    /\ SubSeq(bytes, i, i + Len(line) - 1) = line})

\* C39: when an AppendLine call has returned, it has added its
\* newline-terminated line to the file at most once, whatever attempts failed
\* and were retried; after a nil return it has added the line exactly once.
C39_LineAddedOnce ==
    la.result # "" =>
        /\ Occurrences(AddedByCall, WithNewline(la.line)) <= 1
        /\ la.result = "nil" => Occurrences(AddedByCall, WithNewline(la.line)) = 1


(***************************************************************************)
(* Graceful shutdown                                                       *)
(***************************************************************************)
\* C40: the store is closed only when no handler is active and the scheduler
\* has stopped with no job running, and no store operation is issued after
\* the store is closed, by a handler, a job or a fire-and-forget goroutine.
C40_StoreClosedLast ==
    /\ closedWith # NULL => (closedWith[1].inflight = {} /\ closedWith[1].job = "idle")
    /\ \A op \in storeOps : ~op.afterClose

====
